---- MODULE Spec2Model ----
(***************************************************************************)
(* A model of the callee registry and the scheduler of                     *)
(* arcology-network/scheduler (src/scheduler.go, src/unnamed/part_000,     *)
(* the Schedule type appended to src/scheduler_test.go).                   *)
(*                                                                         *)
(* Byte strings are modelled in chunks: a 20-byte address is the pair      *)
(* <<first 8 bytes, last 12 bytes>>, a byte slice of call data is a        *)
(* sequence whose first element stands for the first 4 bytes (the function *)
(* selector) and whose other elements stand for the argument bytes.        *)
(* Callee indices are 0-based as in the source; TLA+ sequences are         *)
(* 1-based, so the callee with index i is callees[i + 1].                  *)
(***************************************************************************)
EXTENDS Integers, Sequences, FiniteSets, TLC

VARIABLES
    calleeDict,      \* Scheduler.calleeDict: compact key -> callee index
    callees,         \* Scheduler.callees
    deferByDefault,  \* Scheduler.deferByDefault
    ret,             \* the last registry call and what it returned
    nOps,            \* number of registry calls made so far
    stdMsgs,         \* the batch of the Scheduler.New whose schedule the caller holds
    sch,             \* the Schedule that Scheduler.New returned
    laneSets,        \* the lane-sets that Scheduler.New built on the way
    pc,              \* position of a Scheduler.New in progress
    work,            \* locals of the StaticSchedule in progress
    loop,            \* locals of the loops of New and ScheduleDeferred in progress
    optimized,       \* the rounds that Schedule.Optimize returned
    dict,            \* Arbitrator.dict: path -> the transitions inserted at it
    detected,        \* what the calls of Arbitrator.Detect returned, in order
    scanning,        \* locals of the Arbitrator.Detect in progress
    inserted,        \* the transitions handed to Insert since NewArbitrator or the last Clear
    WildcardTrans,   \* Wildcard.WildcardTrans
    wret             \* the last call of the wildcard handler and what it returned

vars == <<calleeDict, callees, deferByDefault, ret, nOps, stdMsgs, sch, laneSets, pc, work, loop,
          optimized, dict, detected, scanning, inserted, WildcardTrans, wret>>

schedVars == <<calleeDict, callees, deferByDefault, ret, nOps, stdMsgs, sch, laneSets, pc, work,
               loop, optimized>>

arbVars == <<dict, detected, scanning, inserted>>

regVars == <<calleeDict, callees, deferByDefault>>

wildVars == <<WildcardTrans, wret>>

-----------------------------------------------------------------------------
(* Bounds and input universes *)

MaxOps == 3        \* registry calls per behaviour of SpecRegistry
MaxSetup == 2      \* registry calls per behaviour where batches are scheduled
MaxSetupPar == 1   \* registry calls per behaviour of SpecPar
MaxBatchPar == 3   \* messages per batch of SpecPar
MaxBatch == 4      \* messages per batch
MaxBatchOrder == 3 \* messages per batch of SpecOrder
MaxImport == 1     \* property transitions per Import call
MaxExcept == 1     \* entries of a callee's Except list

\* math.MaxUint32, the index New gives to a callee that is not in calleeDict.
\* The code only tests it for equality and against len(callees); the model
\* uses the largest integer TLC represents.
MaxUint32 == 2147483647

ShortAddrs == {1, 2}
Sels == {1, 2}

\* [20]byte: the first 8 bytes and the other 12
Addresses == {<<1, 1>>, <<1, 2>>, <<2, 1>>}
Sigs == {<<s>> : s \in Sels}                \* [4]byte
Keys == ShortAddrs \X Sels                  \* [12]byte

Nil == <<>>

-----------------------------------------------------------------------------
(* Helpers over sequences *)

Range(s) == {s[i] : i \in 1..Len(s)}

Contains(s, x) == \E i \in 1..Len(s) : s[i] = x

\* slice.RemoveAt with a 0-based position
RemoveAt(s, pos) ==
    IF pos < 0 \/ pos >= Len(s) THEN s
    ELSE SubSeq(s, 1, pos) \o SubSeq(s, pos + 2, Len(s))

Count(s, x) == Cardinality({i \in 1..Len(s) : s[i] = x})

NoDup(s) == \A i, j \in 1..Len(s) : s[i] = s[j] => i = j

-----------------------------------------------------------------------------
(* Callee registry *)

\* Compact: the first 8 bytes of addr followed by the first 4 bytes of funSign
Compact(addr, funSign) == <<addr[1], funSign[1]>>

\* the key taken from the wrong end of the address
NewCalleeWrongKey(idx, addr, funSign) ==
    [Index |-> idx,
     AddrAndSign |-> <<addr[2], funSign[1]>>,
     Indices |-> <<>>,
     Sequential |-> FALSE,
     Except |-> <<>>,
     Deferrable |-> FALSE]

NewCallee(idx, addr, funSign) ==
    [Index |-> idx,
     AddrAndSign |-> Compact(addr, funSign),
     Indices |-> <<>>,
     Sequential |-> FALSE,
     Except |-> <<>>,
     Deferrable |-> FALSE]

Registry == [dict |-> calleeDict, list |-> callees]

\* the index Find gives to a key that is not in the dictionary
NewIndex(list) == Len(list)

\* Find that appends the callee but does not enter the key in the dictionary
FindNoStore(reg, addr, sig) ==
    LET lftKey == <<addr[1], sig[1]>>
        ok == lftKey \in DOMAIN reg.dict
        idx == IF ok THEN reg.dict[lftKey] ELSE NewIndex(reg.list)
        reg2 == IF ok THEN reg
                ELSE [dict |-> reg.dict,
                      list |-> Append(reg.list, NewCallee(idx, addr, sig))]
    IN [reg |-> reg2, idx |-> idx, ok |-> ok]

\* Scheduler.Find on the registry value reg
Find(reg, addr, sig) ==
    LET lftKey == <<addr[1], sig[1]>>
        ok == lftKey \in DOMAIN reg.dict
        idx == IF ok THEN reg.dict[lftKey] ELSE NewIndex(reg.list)
        reg2 == IF ok THEN reg
                ELSE [dict |-> [k \in DOMAIN reg.dict \cup {lftKey} |->
                                   IF k = lftKey THEN idx ELSE reg.dict[k]],
                      list |-> Append(reg.list, NewCallee(idx, addr, sig))]
    IN [reg |-> reg2, idx |-> idx, ok |-> ok]

\* the append without the slice.Contains guard
AppendIndexUnguarded(list, at, idx) ==
    [list EXCEPT ![at + 1].Indices = Append(@, idx)]

\* the guarded append of Scheduler.Add: Indices of callee at gains idx unless present
AppendIndex(list, at, idx) ==
    IF ~Contains(list[at + 1].Indices, idx)
    THEN [list EXCEPT ![at + 1].Indices = Append(@, idx)]
    ELSE list

\* Add that records the pair on the left side only
AddOneSided(reg, lftAddr, lftSig, rgtAddr, rgtSig) ==
    LET l == Find(reg, lftAddr, lftSig)
        r == Find(l.reg, rgtAddr, rgtSig)
        list1 == AppendIndex(r.reg.list, l.idx, r.idx)
    IN [reg |-> [dict |-> r.reg.dict, list |-> list1], out |-> TRUE]

\* Scheduler.Add on the registry value reg
Add(reg, lftAddr, lftSig, rgtAddr, rgtSig) ==
    LET l == Find(reg, lftAddr, lftSig)
        r == Find(l.reg, rgtAddr, rgtSig)
        list1 == AppendIndex(r.reg.list, l.idx, r.idx)
        list2 == AppendIndex(list1, r.idx, l.idx)
    IN [reg |-> [dict |-> r.reg.dict, list |-> list2], out |-> TRUE]

\* AddDeferred that also resets the other properties of the callee it marks
AddDeferredResets(reg, addr, funSig) ==
    LET f == Find(reg, addr, funSig)
    IN [dict |-> f.reg.dict,
        list |-> [f.reg.list EXCEPT ![f.idx + 1] =
                     [NewCallee(f.idx, addr, funSig) EXCEPT !.Deferrable = TRUE]]]

\* Scheduler.AddDeferred on the registry value reg
AddDeferred(reg, addr, funSig) ==
    LET f == Find(reg, addr, funSig)
    IN [dict |-> f.reg.dict,
        list |-> [f.reg.list EXCEPT ![f.idx + 1].Deferrable = TRUE]]


-----------------------------------------------------------------------------
(* Import of property transitions *)

\* stgcommon.SEQUENTIAL_EXECUTION, a one-byte flag value defined outside the
\* repository; the model needs one byte equal to it and one that differs
SEQUENTIAL_EXECUTION == 1

FlagBytes == {0, 1}

Suffixes == {"EXECUTION_PARALLELISM", "EXECUTION_EXCEPTED", "REQUIRED_GAS_PREPAYMENT", "NONE"}

\* A property path in parts: the address between the account prefix and the
\* next "/", whether FULL_FUNC_PATH occurs, the bytes that hex-decode from
\* what follows FULL_FUNC_PATH, and the suffix the path ends with.
\* Callee.parseCalleeSignature gives the (addr, sign) it extracts, both empty
\* when FULL_FUNC_PATH is absent or no selector byte decodes.
parseCalleeSignature(path) ==
    IF ~path.hasFuncPath THEN [addr |-> <<>>, sign |-> <<>>]
    ELSE IF Len(path.sign) = 0 THEN [addr |-> <<>>, sign |-> <<>>]
    ELSE [addr |-> path.addr, sign |-> path.sign]

\* Callee.init that sets the Sequential flag and never clears it
initSetOnly(c, v) ==
    LET c1 == IF v.path.suffix = "EXECUTION_PARALLELISM" /\ ~v.value.nil
              THEN [c EXCEPT !.Sequential = @ \/ (v.value.flag = SEQUENTIAL_EXECUTION)]
              ELSE c
        c2 == IF v.path.suffix = "EXECUTION_EXCEPTED"
              THEN [c1 EXCEPT !.Except = @ \o v.value.elems]
              ELSE c1
        c3 == IF v.path.suffix = "REQUIRED_GAS_PREPAYMENT" /\ ~v.value.nil
              THEN [c2 EXCEPT !.Deferrable = (v.value.flag > 0)]
              ELSE c2
    IN c3

\* Callee.init for one transition v on the callee record c
init(c, v) ==
    LET c1 == IF v.path.suffix = "EXECUTION_PARALLELISM" /\ ~v.value.nil
              THEN [c EXCEPT !.Sequential = (v.value.flag = SEQUENTIAL_EXECUTION)]
              ELSE c
        c2 == IF v.path.suffix = "EXECUTION_EXCEPTED"
              THEN [c1 EXCEPT !.Except = @ \o v.value.elems]
              ELSE c1
        c3 == IF v.path.suffix = "REQUIRED_GAS_PREPAYMENT" /\ ~v.value.nil
              THEN [c2 EXCEPT !.Deferrable = (v.value.flag > 0)]
              ELSE c2
    IN c3

\* an iteration that builds the callee anew from the transition
ImportOneAnew(reg, v) ==
    LET p == parseCalleeSignature(v.path)
    IN IF Len(p.addr) = 0 \/ Len(p.sign) = 0 THEN reg
       ELSE LET f == Find(reg, p.addr, p.sign)
            IN [dict |-> f.reg.dict,
                list |-> [f.reg.list EXCEPT ![f.idx + 1] =
                             init(NewCallee(f.idx, p.addr, p.sign), v)]]

\* one iteration of the loop of Scheduler.Import
ImportOne(reg, v) ==
    LET p == parseCalleeSignature(v.path)
    IN IF Len(p.addr) = 0 \/ Len(p.sign) = 0 THEN reg
       ELSE LET f == Find(reg, p.addr, p.sign)
            IN [dict |-> f.reg.dict,
                list |-> [f.reg.list EXCEPT ![f.idx + 1] = init(@, v)]]

RECURSIVE Import(_, _)
\* Scheduler.Import on the registry value reg
Import(reg, propertyTransitions) ==
    IF propertyTransitions = <<>> THEN reg
    ELSE Import(ImportOne(reg, Head(propertyTransitions)), Tail(propertyTransitions))

-----------------------------------------------------------------------------
(* Sorting: sort.Slice on at most 12 elements is an insertion sort *)

\* the comparator of the sort.Slice call in Scheduler.New
LessByConflicts(a, b) ==
    LET lft == Len(callees[a.First + 1].Indices)
        rgt == Len(callees[b.First + 1].Indices)
    IN IF lft < rgt THEN TRUE ELSE a.Second.ID < b.Second.ID

\* the comparator of the sort.Slice call in Scheduler.ScheduleDeferred
LessByCallee(a, b) ==
    IF a.First # b.First THEN a.First < b.First ELSE a.Second.ID < b.Second.ID

Less(cmp, a, b) ==
    IF cmp = "conflicts" THEN LessByConflicts(a, b) ELSE LessByCallee(a, b)

Swap(s, i, j) == [s EXCEPT ![i] = s[j], ![j] = s[i]]

RECURSIVE InsertBack(_, _, _)
\* the inner loop of the insertion sort: s[j] moves left while it is less
InsertBack(cmp, s, j) ==
    IF j > 1 /\ Less(cmp, s[j], s[j - 1])
    THEN InsertBack(cmp, Swap(s, j, j - 1), j - 1)
    ELSE s

RECURSIVE InsertionSortFrom(_, _, _)
InsertionSortFrom(cmp, s, i) ==
    IF i > Len(s) THEN s
    ELSE InsertionSortFrom(cmp, InsertBack(cmp, s, i), i + 1)

SortSlice(cmp, s) == InsertionSortFrom(cmp, s, 2)

-----------------------------------------------------------------------------
(* Scheduler.StaticSchedule *)

EmptySchedule ==
    [Transfers |-> <<>>, Deployments |-> <<>>, Unknows |-> <<>>,
     WithConflict |-> <<>>, Sequentials |-> <<>>, Generations |-> <<>>]

IsTransfer(msg) == Len(msg.Data) = 0
IsDeployment(msg) == msg.To = Nil

\* the two slice.MoveIf calls in the other order
StaticMovesDeploymentsFirst(msgs) ==
    LET deployments == SelectSeq(msgs, IsDeployment)
        rest1 == SelectSeq(msgs, LAMBDA m : ~IsDeployment(m))
        transfers == SelectSeq(rest1, IsTransfer)
        rest2 == SelectSeq(rest1, LAMBDA m : ~IsTransfer(m))
    IN [Transfers |-> transfers, Deployments |-> deployments, rest |-> rest2]

\* the two slice.MoveIf calls on stdMsgs: what is moved out and what stays
StaticMoves(msgs) ==
    LET transfers == SelectSeq(msgs, IsTransfer)
        rest1 == SelectSeq(msgs, LAMBDA m : ~IsTransfer(m))
        deployments == SelectSeq(rest1, IsDeployment)
        rest2 == SelectSeq(rest1, LAMBDA m : ~IsDeployment(m))
    IN [Transfers |-> transfers, Deployments |-> deployments, rest |-> rest2]

\* the function handed to slice.ParallelTransform, for one message
ToPair(msg) ==
    LET key == Compact(msg.To, msg.Data)
    IN [First |-> IF key \in DOMAIN calleeDict THEN calleeDict[key] ELSE MaxUint32,
        Second |-> msg]

Seconds(pairs) == [i \in 1..Len(pairs) |-> pairs[i].Second]
Firsts(pairs) == [i \in 1..Len(pairs) |-> pairs[i].First]

IsUnknown(v) == v.First = MaxUint32
IsSequentialOnly(v) == IF v.First < Len(callees) THEN callees[v.First + 1].Sequential ELSE FALSE

\* StaticSchedule from the transformed pairs on: unknowns and sequentials move out
StaticTail(moves, pairs) ==
    LET unknows == SelectSeq(pairs, IsUnknown)
        known == SelectSeq(pairs, LAMBDA v : ~IsUnknown(v))
        sequentialOnly == SelectSeq(known, IsSequentialOnly)
        left == SelectSeq(known, LAMBDA v : ~IsSequentialOnly(v))
    IN [sch |-> [EmptySchedule EXCEPT !.Transfers = moves.Transfers,
                                      !.Deployments = moves.Deployments,
                                      !.Unknows = Seconds(unknows),
                                      !.Sequentials = Seconds(sequentialOnly)],
        pairs |-> left]

StaticSchedule(msgs) ==
    LET moves == StaticMoves(msgs)
        pairs == [i \in 1..Len(moves.rest) |-> ToPair(moves.rest[i])]
    IN StaticTail(moves, pairs)

-----------------------------------------------------------------------------
(* Scheduler.ScheduleDeferred *)

\* slice.FindFirstIf / slice.FindLastIf for "same callee as info[i]", 0-based
FindFirstSame(info, i) ==
    (CHOOSE j \in 1..Len(info) :
        /\ info[j].First = info[i + 1].First
        /\ \A k \in 1..(j - 1) : info[k].First # info[i + 1].First) - 1

FindLastSame(info, i) ==
    (CHOOSE j \in 1..Len(info) :
        /\ info[j].First = info[i + 1].First
        /\ \A k \in (j + 1)..Len(info) : info[k].First # info[i + 1].First) - 1

\* the test of line 226: is the callee of this pair's message deferrable now
DeferPolicy(pair) ==
    LET key == Compact(pair.Second.To, pair.Second.Data)
    IN deferByDefault \/ (key \in DOMAIN calleeDict /\ callees[calleeDict[key] + 1].Deferrable)

\* the position the scan continues from after a run that was not split
NextRun(last) == last + 1

RECURSIVE DeferLoop(_, _, _, _)
\* the for loop of ScheduleDeferred; info is *paraMsgInfo
DeferLoop(info, deferredMsgs, i, last) ==
    LET tmpfirst == FindFirstSame(info, i)
        tmplast == FindLastSame(info, i)
    IN IF last # 0 /\ last = tmplast
       THEN [para |-> info, deferred |-> deferredMsgs]
       ELSE LET move == tmpfirst # tmplast /\ DeferPolicy(info[i + 1])
                info2 == IF move THEN RemoveAt(info, tmplast) ELSE info
                deferred2 == IF move THEN Append(deferredMsgs, info[tmplast + 1])
                             ELSE deferredMsgs
                i2 == IF tmpfirst # tmplast
                      THEN (IF move THEN tmplast ELSE i)
                      ELSE NextRun(tmplast)
            IN IF i2 >= Len(info2)
               THEN [para |-> info2, deferred |-> deferred2]
               ELSE DeferLoop(info2, deferred2, i2, tmplast)

ScheduleDeferred(paraMsgInfo) ==
    DeferLoop(SortSlice("callee", paraMsgInfo), <<>>, 0, 0)

-----------------------------------------------------------------------------
(* Scheduler.New *)

IndicesOf(idx) == Range(callees[idx + 1].Indices)

\* the test of line 135 with its two maps exchanged
AdmissibleMapsExchanged(blacklist, paraMsgIds, target) ==
    /\ target.First \notin paraMsgIds
    /\ IndicesOf(target.First) \cap blacklist = {}

\* the test of line 135: may target join the lane-set
Admissible(blacklist, paraMsgIds, target) ==
    /\ target.First \notin blacklist
    /\ IndicesOf(target.First) \cap paraMsgIds = {}

RECURSIVE Scan(_, _, _, _, _)
\* the inner loop without the i-- that follows slice.RemoveAt
ScanSkipsNext(msgPairs, paraMsgs, blacklist, paraMsgIds, i) ==
    IF i >= Len(msgPairs)
    THEN [msgPairs |-> msgPairs, paraMsgs |-> paraMsgs]
    ELSE LET targetMsg == msgPairs[i + 1]
         IN IF Admissible(blacklist, paraMsgIds, targetMsg)
            THEN Scan(RemoveAt(msgPairs, i),
                      Append(paraMsgs, targetMsg),
                      blacklist \cup IndicesOf(targetMsg.First),
                      paraMsgIds \cup {targetMsg.First},
                      i + 1)
            ELSE Scan(msgPairs, paraMsgs, blacklist, paraMsgIds, i + 1)

\* the inner for loop of New over msgPairs, i 0-based
Scan(msgPairs, paraMsgs, blacklist, paraMsgIds, i) ==
    IF i >= Len(msgPairs)
    THEN [msgPairs |-> msgPairs, paraMsgs |-> paraMsgs]
    ELSE LET targetMsg == msgPairs[i + 1]
         IN IF Admissible(blacklist, paraMsgIds, targetMsg)
            THEN Scan(RemoveAt(msgPairs, i),
                      Append(paraMsgs, targetMsg),
                      blacklist \cup IndicesOf(targetMsg.First),
                      paraMsgIds \cup {targetMsg.First},
                      i)
            ELSE Scan(msgPairs, paraMsgs, blacklist, paraMsgIds, i + 1)

\* one message per lane
Lanes(msgs) == [i \in 1..Len(msgs) |-> <<msgs[i]>>]

RECURSIVE GenLoop(_, _, _)
\* the outer loop with the seed of every lane-set appended to WithConflict
GenLoopSeedConflicts(s, msgPairs, sets) ==
    LET seedCallee == Head(msgPairs)
        scan == Scan(Tail(msgPairs), <<seedCallee>>, IndicesOf(seedCallee.First),
                     {seedCallee.First}, 0)
    IN IF Len(scan.paraMsgs) = 1
       THEN [sch |-> [s EXCEPT !.WithConflict = @ \o Seconds(scan.paraMsgs)],
             msgPairs |-> scan.msgPairs, sets |-> sets]
       ELSE LET d == ScheduleDeferred(scan.paraMsgs)
                gens == <<Lanes(Seconds(d.para))>> \o
                        (IF Len(d.deferred) > 0 THEN <<Lanes(Seconds(d.deferred))>> ELSE <<>>)
                s2 == [s EXCEPT !.Generations = @ \o gens,
                                !.WithConflict = Append(@, seedCallee.Second)]
                sets2 == Append(sets, [lane |-> scan.paraMsgs, para |-> d.para,
                                       deferred |-> d.deferred])
            IN IF Len(scan.msgPairs) = 0
               THEN [sch |-> s2, msgPairs |-> scan.msgPairs, sets |-> sets2]
               ELSE GenLoop(s2, scan.msgPairs, sets2)

\* the outer for loop of New; gives the schedule, the pairs left and the lane-sets
GenLoop(s, msgPairs, sets) ==
    LET seedCallee == Head(msgPairs)
        scan == Scan(Tail(msgPairs), <<seedCallee>>, IndicesOf(seedCallee.First),
                     {seedCallee.First}, 0)
    IN IF Len(scan.paraMsgs) = 1
       THEN [sch |-> [s EXCEPT !.WithConflict = @ \o Seconds(scan.paraMsgs)],
             msgPairs |-> scan.msgPairs, sets |-> sets]
       ELSE LET d == ScheduleDeferred(scan.paraMsgs)
                gens == <<Lanes(Seconds(d.para))>> \o
                        (IF Len(d.deferred) > 0 THEN <<Lanes(Seconds(d.deferred))>> ELSE <<>>)
                s2 == [s EXCEPT !.Generations = @ \o gens]
                sets2 == Append(sets, [lane |-> scan.paraMsgs, para |-> d.para,
                                       deferred |-> d.deferred])
            IN IF Len(scan.msgPairs) = 0
               THEN [sch |-> s2, msgPairs |-> scan.msgPairs, sets |-> sets2]
               ELSE GenLoop(s2, scan.msgPairs, sets2)

\* New without the final append of the pairs left over (line 183)
NewTailDropsRest(static) ==
    IF Len(static.pairs) = 0 THEN [sch |-> static.sch, sets |-> <<>>]
    ELSE LET g == GenLoop(static.sch, SortSlice("conflicts", static.pairs), <<>>)
         IN [sch |-> [g.sch EXCEPT
                        !.Generations = SelectSeq(@, LAMBDA gen : Len(gen) # 0)],
             sets |-> g.sets]

\* New from the result of StaticSchedule on
NewTail(static) ==
    IF Len(static.pairs) = 0 THEN [sch |-> static.sch, sets |-> <<>>]
    ELSE LET g == GenLoop(static.sch, SortSlice("conflicts", static.pairs), <<>>)
         IN [sch |-> [g.sch EXCEPT
                        !.Generations = SelectSeq(@, LAMBDA gen : Len(gen) # 0),
                        !.WithConflict = @ \o Seconds(g.msgPairs)],
             sets |-> g.sets]

New(msgs) == NewTail(StaticSchedule(msgs))

\* a lookup that goes through Find and so enters the key of a new callee
LookupInterning(reg, msg) == Find(reg, msg.To, msg.Data).reg

\* the registry after the lookup of line 262: reading this.calleeDict[key]
\* enters nothing in the map and appends nothing to callees
Lookup(reg, msg) == reg

RECURSIVE LookupAll(_, _)
\* the registry after the lookups of ParallelTransform over the messages
LookupAll(reg, msgs) ==
    IF msgs = <<>> THEN reg ELSE LookupAll(Lookup(reg, Head(msgs)), Tail(msgs))

\* the registry that New leaves: only StaticSchedule touches calleeDict
RegistryAfterNew(msgs) == LookupAll(Registry, StaticMoves(msgs).rest)

-----------------------------------------------------------------------------
(* Inputs *)

RECURSIVE SeqsUpTo(_, _)
\* the sequences over S of length at most n
SeqsUpTo(S, n) ==
    IF n = 0 THEN {<<>>}
    ELSE LET shorter == SeqsUpTo(S, n - 1)
         IN shorter \cup {Append(q, x) : q \in {r \in shorter : Len(r) = n - 1}, x \in S}

\* the (address, selector) pairs handed to the registry calls: two addresses
\* that share their first 8 bytes, one that differs, two selectors
Callers == Addresses \X Sigs

\* the pairs used where batches are scheduled: three callees, two of them at
\* one address with different selectors
SchedCallers == {<<<<1, 1>>, <<1>>>>, <<<<1, 1>>, <<2>>>>, <<<<2, 1>>, <<1>>>>}

\* a transition's value: absent, a one-byte flag, or a path set's elements
NilValue == [nil |-> TRUE, flag |-> 0, elems |-> <<>>]
FlagValue(b) == [nil |-> FALSE, flag |-> b, elems |-> <<>>]
PathValue(e) == [nil |-> FALSE, flag |-> 0, elems |-> e]

Path(c, suffix) == [addr |-> c[1], hasFuncPath |-> TRUE, sign |-> c[2], suffix |-> suffix]

\* property transitions about the callers C: every flag on every caller, an
\* exception list, a path without FULL_FUNC_PATH and one without selector
Transitions(C) ==
    {[path |-> Path(c, x), value |-> v] :
        c \in C, x \in {"EXECUTION_PARALLELISM", "REQUIRED_GAS_PREPAYMENT"},
        v \in {NilValue} \cup {FlagValue(b) : b \in FlagBytes}}
    \cup {[path |-> Path(c, "EXECUTION_EXCEPTED"), value |-> PathValue(<<Compact(c[1], c[2])>>)] : c \in C}
    \cup {[path |-> [Path(c, "NONE") EXCEPT !.hasFuncPath = FALSE], value |-> NilValue] : c \in C}
    \cup {[path |-> [Path(c, "NONE") EXCEPT !.sign = <<>>], value |-> NilValue] : c \in C}

\* message kinds: a call to each caller, a transfer (no call data) and a
\* deployment (no recipient)
MsgKinds(C) == C \cup {<<<<1, 1>>, <<>>>>, <<Nil, <<1>>>>}

\* message ids of a batch of n messages: ascending or descending with position
IdLayouts(n) == {[i \in 1..n |-> i - 1], [i \in 1..n |-> n - i]}

Batches(C, n) ==
    UNION {{[i \in 1..Len(kinds) |->
                [ID |-> ids[i], To |-> kinds[i][1], Data |-> kinds[i][2], IsDeferred |-> FALSE]] :
            ids \in IdLayouts(Len(kinds))} : kinds \in SeqsUpTo(MsgKinds(C), n)}

-----------------------------------------------------------------------------
(* The state machine *)

\* ret.was records, for Find, whether the key was in calleeDict before the
\* call and, for Add, whether each side already listed the other
NoCall == [op |-> "NewScheduler", args |-> <<>>, out |-> <<>>, was |-> FALSE]

NilMsg == [ID |-> 0, To |-> Nil, Data |-> <<>>, IsDeferred |-> FALSE]
NilPair == [First |-> 0, Second |-> NilMsg]
Idle == [moves |-> StaticMoves(<<>>), pairs |-> <<>>, done |-> {}]

\* no loop of New is in progress
NoLoop == [sch |-> EmptySchedule, msgPairs |-> <<>>, sets |-> <<>>, paraMsgs |-> <<>>,
           info |-> <<>>, deferredMsgs |-> <<>>, i |-> 0, last |-> 0, steps |-> 0]

\* no Wildcard has been constructed
NoWildCall == [op |-> "none", n |-> 0, arg |-> <<>>, held |-> <<>>, out |-> <<>>, trans |-> <<>>]

\* no Detect is in progress
NoScan == [keys |-> <<>>, conflists |-> <<>>, done |-> {}, accessed |-> <<>>]

Init ==
    /\ calleeDict = <<>>
    /\ callees = <<>>
    /\ deferByDefault \in BOOLEAN
    /\ ret = NoCall
    /\ nOps = 0
    /\ stdMsgs = <<>>
    /\ sch = EmptySchedule
    /\ laneSets = <<>>
    /\ pc = "idle"
    /\ work = Idle
    /\ loop = NoLoop
    /\ optimized = <<>>
    /\ dict = <<>>
    /\ detected = <<>>
    /\ scanning = NoScan
    /\ inserted = <<>>
    /\ WildcardTrans = <<>>
    /\ wret = NoWildCall

\* a registry call returns: the registry is replaced
RegistryCall(reg, call) ==
    /\ calleeDict' = reg.dict
    /\ callees' = reg.list
    /\ ret' = call
    /\ nOps' = nOps + 1
    /\ UNCHANGED <<loop, optimized, dict, detected, scanning, inserted, WildcardTrans, wret>> /\ UNCHANGED <<deferByDefault, stdMsgs, sch, laneSets, pc, work>>

\* a registry call can be made: no New is in progress, no schedule is held
CanCall(max) == pc = "idle" /\ stdMsgs = <<>> /\ nOps < max

KeyOf(c) == Compact(c[1], c[2])

\* do the callees of keys l and r list each other
Recorded(l, r) ==
    /\ l \in DOMAIN calleeDict /\ r \in DOMAIN calleeDict
    /\ Contains(callees[calleeDict[l] + 1].Indices, calleeDict[r])
    /\ Contains(callees[calleeDict[r] + 1].Indices, calleeDict[l])

DoFind(C, max) ==
    /\ CanCall(max)
    /\ \E c \in C :
        LET f == Find(Registry, c[1], c[2])
        IN RegistryCall(f.reg, [op |-> "Find", args |-> <<c>>, out |-> <<f.idx, f.ok>>,
                                was |-> KeyOf(c) \in DOMAIN calleeDict])

DoAdd(C, max) ==
    /\ CanCall(max)
    /\ \E l \in C, r \in C :
        LET a == Add(Registry, l[1], l[2], r[1], r[2])
        IN RegistryCall(a.reg, [op |-> "Add", args |-> <<l, r>>, out |-> <<a.out>>,
                                was |-> Recorded(KeyOf(l), KeyOf(r))])

DoAddDeferred(C, max) ==
    /\ CanCall(max)
    /\ \E c \in C :
        RegistryCall(AddDeferred(Registry, c[1], c[2]),
                     [op |-> "AddDeferred", args |-> <<c>>, out |-> <<>>, was |-> FALSE])

ExceptBounded(reg) == \A i \in 1..Len(reg.list) : Len(reg.list[i].Except) <= MaxExcept

DoImport(T, max) ==
    /\ CanCall(max)
    /\ \E propertyTransitions \in SeqsUpTo(T, MaxImport) :
        LET reg == Import(Registry, propertyTransitions)
        IN /\ ExceptBounded(reg)
           /\ RegistryCall(reg, [op |-> "Import", args |-> <<propertyTransitions>>,
                                 out |-> <<>>, was |-> FALSE])

\* Scheduler.New as one step
DoNew(B) ==
    /\ pc = "idle" /\ stdMsgs = <<>>
    /\ \E msgs \in B :
        LET n == New(msgs)
        IN /\ stdMsgs' = msgs
           /\ sch' = n.sch
           /\ laneSets' = n.sets
           /\ calleeDict' = RegistryAfterNew(msgs).dict
           /\ callees' = RegistryAfterNew(msgs).list
    /\ UNCHANGED <<loop, optimized, dict, detected, scanning, inserted, WildcardTrans, wret>> /\ UNCHANGED <<deferByDefault, ret, nOps, pc, work>>

\* the caller lets go of the schedule it was handed
Release ==
    /\ pc = "idle" /\ stdMsgs # <<>>
    /\ stdMsgs' = <<>>
    /\ sch' = EmptySchedule
    /\ laneSets' = <<>>
    /\ optimized' = <<>> /\ UNCHANGED arbVars /\ UNCHANGED wildVars /\ UNCHANGED loop /\ UNCHANGED <<calleeDict, callees, deferByDefault, ret, nOps, pc, work>>

-----------------------------------------------------------------------------
(* Scheduler.New step by step: the workers of slice.ParallelTransform each
   fill the entries of the result they are given, in any interleaving *)

\* a worker that takes the next message of a cursor shared with the others
TransformAtCursor(i, w) ==
    LET next == Cardinality(w.done) + 1
    IN [First |-> ToPair(w.moves.rest[next]).First, Second |-> w.moves.rest[next]]

\* what the worker on index i (0-based) writes to entry i of the result
TransformAt(i, w) ==
    [First |-> ToPair(w.moves.rest[i + 1]).First, Second |-> w.moves.rest[i + 1]]

NewBegin(B) ==
    /\ pc = "idle" /\ stdMsgs = <<>>
    /\ \E msgs \in B :
        /\ msgs # <<>>
        /\ stdMsgs' = msgs
        /\ work' = [moves |-> StaticMoves(msgs),
                    pairs |-> [i \in 1..Len(StaticMoves(msgs).rest) |-> NilPair],
                    done |-> {}]
    /\ pc' = "transform"
    /\ UNCHANGED <<loop, optimized, dict, detected, scanning, inserted, WildcardTrans, wret>> /\ UNCHANGED <<calleeDict, callees, deferByDefault, ret, nOps, sch, laneSets>>

Worker ==
    /\ pc = "transform"
    /\ \E i \in (0..(Len(work.pairs) - 1)) \ work.done :
        work' = [work EXCEPT !.pairs[i + 1] = TransformAt(i, work), !.done = @ \cup {i}]
    /\ UNCHANGED <<loop, optimized, dict, detected, scanning, inserted, WildcardTrans, wret>> /\ UNCHANGED <<calleeDict, callees, deferByDefault, ret, nOps, stdMsgs, sch, laneSets, pc>>

NewEnd ==
    /\ pc = "transform"
    /\ work.done = 0..(Len(work.pairs) - 1)
    /\ LET n == NewTail(StaticTail(work.moves, work.pairs))
       IN /\ sch' = n.sch
          /\ laneSets' = n.sets
    /\ pc' = "idle"
    /\ work' = Idle
    /\ UNCHANGED <<loop, optimized, dict, detected, scanning, inserted, WildcardTrans, wret>> /\ UNCHANGED <<calleeDict, callees, deferByDefault, ret, nOps, stdMsgs>>

AllTransitions == Transitions(Callers)

\* where batches are scheduled: the transitions that set or clear Sequential
SchedTransitions ==
    {[path |-> Path(c, "EXECUTION_PARALLELISM"), value |-> FlagValue(b)] :
        c \in SchedCallers, b \in FlagBytes}

SchedBatches == Batches(SchedCallers, MaxBatch)
ParBatches == Batches(SchedCallers, MaxBatchPar)

\* the registry calls, on the full universe of callers
RegistryNext ==
    \/ DoFind(Callers, MaxOps)
    \/ DoAdd(Callers, MaxOps)
    \/ DoAddDeferred(Callers, MaxOps)
    \/ DoImport(AllTransitions, MaxOps)

SpecRegistry == Init /\ [][RegistryNext]_vars

\* a few registry calls, then batches are scheduled
Next ==
    \/ DoFind(SchedCallers, MaxSetup)
    \/ DoAdd(SchedCallers, MaxSetup)
    \/ DoAddDeferred(SchedCallers, MaxSetup)
    \/ DoImport(SchedTransitions, MaxSetup)
    \/ DoNew(SchedBatches)
    \/ Release

Spec == Init /\ [][Next]_vars

\* one registry call, then batches are scheduled step by step
ParNext ==
    \/ DoFind(SchedCallers, MaxSetupPar)
    \/ DoAdd(SchedCallers, MaxSetupPar)
    \/ DoAddDeferred(SchedCallers, MaxSetupPar)
    \/ DoImport(SchedTransitions, MaxSetupPar)
    \/ NewBegin(ParBatches)
    \/ Worker
    \/ NewEnd
    \/ Release

SpecPar == Init /\ [][ParNext]_vars

-----------------------------------------------------------------------------
(* Registry properties *)

IndexOf(c) == calleeDict[KeyOf(c)]
ConflictsOf(idx) == callees[idx + 1].Indices

\* C5: the conflict relation is symmetric in every reachable registry state
\* (callee j is in callee i's Indices exactly when i is in j's), and right
\* after Add(l, r) each side lists the other's index.
RegistrySymmetry ==
    /\ \A i, j \in 0..(Len(callees) - 1) :
          Contains(ConflictsOf(i), j) <=> Contains(ConflictsOf(j), i)
    /\ ret.op = "Add" =>
          /\ KeyOf(ret.args[1]) \in DOMAIN calleeDict
          /\ KeyOf(ret.args[2]) \in DOMAIN calleeDict
          /\ Contains(ConflictsOf(IndexOf(ret.args[1])), IndexOf(ret.args[2]))
          /\ Contains(ConflictsOf(IndexOf(ret.args[2])), IndexOf(ret.args[1]))

\* an Add of two different callees has returned, in a registry of three
SymmetryWitness ==
    /\ ret.op = "Add"
    /\ KeyOf(ret.args[1]) # KeyOf(ret.args[2])
    /\ Len(callees) = 3
    /\ \E i \in 0..2 : Len(ConflictsOf(i)) = 2

\* C6: Add is idempotent: no Indices list ever holds an index twice, and an
\* Add of a pair whose sides already list each other (repeated, swapped, or
\* the same callee on both sides) leaves calleeDict and callees unchanged.
AddIdempotent ==
    [][/\ \A i \in 1..Len(callees') : NoDup(callees'[i].Indices)
       /\ (nOps' = nOps + 1 /\ ret'.op = "Add" /\ Recorded(KeyOf(ret'.args[1]), KeyOf(ret'.args[2])))
             => (calleeDict' = calleeDict /\ callees' = callees)]_vars

\* a pair was added again with its sides swapped, and a callee was paired with itself
IdempotentWitness ==
    /\ ret.op = "Add" /\ ret.was
    /\ KeyOf(ret.args[1]) # KeyOf(ret.args[2])
    /\ IndexOf(ret.args[1]) > IndexOf(ret.args[2])
    /\ Contains(ConflictsOf(IndexOf(ret.args[1])), IndexOf(ret.args[1]))

\* C7: Add returns whether the pair is new: TRUE exactly when the two callees
\* did not list each other before the call.
AddReturnsNew == ret.op = "Add" => (ret.out[1] <=> ~ret.was)

\* C8: the callee at position i has index i, calleeDict has one entry per
\* callee and maps onto 0..n-1 one to one, and each key maps to the callee
\* whose compact key it is.
DenseIndices ==
    LET n == Len(callees)
    IN /\ \A i \in 0..(n - 1) : callees[i + 1].Index = i
       /\ Cardinality(DOMAIN calleeDict) = n
       /\ {calleeDict[k] : k \in DOMAIN calleeDict} = 0..(n - 1)
       /\ \A k \in DOMAIN calleeDict :
             calleeDict[k] \in 0..(n - 1) /\ callees[calleeDict[k] + 1].AddrAndSign = k

\* four callees are interned, the two selectors at each short address
DenseWitness ==
    /\ Len(callees) = 4
    /\ DOMAIN calleeDict = Keys

\* C9: interning is stable (a pair is identified by its compact key): no step
\* removes a key or changes its index, a new key gets an index no key had,
\* and Find returns the key's index, with already_existed false exactly on
\* the call that creates the entry.
StableInterning ==
    [][/\ \A k \in DOMAIN calleeDict :
             k \in DOMAIN calleeDict' /\ calleeDict'[k] = calleeDict[k]
       /\ \A k \in DOMAIN calleeDict' \ DOMAIN calleeDict :
             \A j \in DOMAIN calleeDict : calleeDict'[k] # calleeDict[j]
       /\ (nOps' = nOps + 1 /\ ret'.op = "Find") =>
             LET k == KeyOf(ret'.args[1])
             IN /\ k \in DOMAIN calleeDict'
                /\ ret'.out[1] = calleeDict'[k]
                /\ ret'.out[2] = (k \in DOMAIN calleeDict)]_vars

\* a Find of a pair interned two calls earlier, by an address that differs
\* from the interning one after its first 8 bytes, returns the first index
InterningWitness ==
    /\ ret.op = "Find" /\ ret.was
    /\ ret.out = <<0, TRUE>>
    /\ Len(callees) = 2
    /\ ret.args[1][1] = <<1, 2>>
    /\ nOps = 3

-----------------------------------------------------------------------------
(* Schedule properties *)

RECURSIVE Flatten(_)
\* the elements of a sequence of sequences, in order
Flatten(ss) == IF ss = <<>> THEN <<>> ELSE Head(ss) \o Flatten(Tail(ss))

\* every message the schedule s holds, lanes of generations included
Placed(s) ==
    s.Transfers \o s.Deployments \o s.Unknows \o s.Sequentials \o s.WithConflict
        \o Flatten(Flatten(s.Generations))

\* the callee index of a message whose key is in calleeDict
CalleeOf(msg) == calleeDict[Compact(msg.To, msg.Data)]

\* C1: after New every message of the batch is held exactly once by
\* transfers, deployments, unknowns, sequentials, with_conflict and the lanes
\* of generations together, so their sizes sum to the size of the batch.
PartitionCoverage ==
    pc = "idle" =>
        LET out == Placed(sch)
        IN /\ Len(sch.Transfers) + Len(sch.Deployments) + Len(sch.Unknows)
                + Len(sch.Sequentials) + Len(sch.WithConflict)
                + Len(Flatten(sch.Generations)) = Len(stdMsgs)
           /\ \A gen \in Range(sch.Generations) : \A lane \in Range(gen) : Len(lane) = 1
           /\ \A m \in Range(stdMsgs) \cup Range(out) : Count(out, m) = Count(stdMsgs, m)

\* a batch of four with a transfer, a generation of two and a message that
\* conflicts with them
CoverageWitness ==
    /\ Len(stdMsgs) = 4
    /\ Len(sch.Transfers) = 1
    /\ Len(sch.WithConflict) = 1
    /\ Len(sch.Generations) = 1 /\ Len(sch.Generations[1]) = 2

\* C2: no two messages of one generation have callees one of which lists the
\* other in its Indices.
IndependentSets ==
    \A g \in 1..Len(sch.Generations) :
        \A i, j \in 1..Len(sch.Generations[g]) :
            i # j =>
                LET a == CalleeOf(sch.Generations[g][i][1])
                    b == CalleeOf(sch.Generations[g][j][1])
                IN ~Contains(ConflictsOf(a), b) /\ ~Contains(ConflictsOf(b), a)

\* a generation of two different callees, and a third callee kept out of it
\* because it conflicts with the one admitted after the seed
IndependentWitness ==
    /\ Len(sch.Generations) = 1 /\ Len(sch.Generations[1]) = 2
    /\ Len(sch.WithConflict) = 1
    /\ LET a == CalleeOf(sch.Generations[1][1][1])
           b == CalleeOf(sch.Generations[1][2][1])
           c == CalleeOf(sch.WithConflict[1])
       IN /\ a # b
          /\ Contains(ConflictsOf(c), a) \/ Contains(ConflictsOf(c), b)

CountFirst(pairs, idx) == Cardinality({i \in 1..Len(pairs) : pairs[i].First = idx})

RECURSIVE GenPos(_)
\* where the parallel generation of the n-th lane-set stands in Generations
GenPos(n) ==
    IF n = 1 THEN 1
    ELSE GenPos(n - 1) + 1 + (IF Len(laneSets[n - 1].deferred) > 0 THEN 1 ELSE 0)

DeferrableNow(idx) == deferByDefault \/ callees[idx + 1].Deferrable

\* C3: in every lane-set, each callee that occurs k > 1 times and is
\* deferrable under the active policy has exactly one occurrence in the
\* generation that follows immediately and k - 1 in the lane-set's own.
DeferralPerCallee ==
    \A n \in 1..Len(laneSets) :
        \A idx \in Range(Firsts(laneSets[n].lane)) :
            LET k == CountFirst(laneSets[n].lane, idx)
            IN (k > 1 /\ DeferrableNow(idx)) =>
                  /\ CountFirst(laneSets[n].deferred, idx) = 1
                  /\ CountFirst(laneSets[n].para, idx) = k - 1
                  /\ GenPos(n) + 1 <= Len(sch.Generations)
                  /\ sch.Generations[GenPos(n)] = Lanes(Seconds(laneSets[n].para))
                  /\ sch.Generations[GenPos(n) + 1] = Lanes(Seconds(laneSets[n].deferred))

\* C4: the messages New moves to a deferred generation are marked IsDeferred
\* on return, those it leaves in a parallel generation are not.
DeferredMarked ==
    \A n \in 1..Len(laneSets) :
        /\ \A p \in Range(laneSets[n].deferred) : p.Second.IsDeferred
        /\ \A p \in Range(laneSets[n].para) : ~p.Second.IsDeferred
        /\ Len(laneSets[n].deferred) > 0 =>
              /\ GenPos(n) + 1 <= Len(sch.Generations)
              /\ \A lane \in Range(sch.Generations[GenPos(n) + 1]) : lane[1].IsDeferred

\* C10: whatever the order in which the workers of the static partition
\* finish, New returns the schedule that the registry and the batch determine.
ScheduleDeterminism ==
    (pc = "idle" /\ stdMsgs # <<>>) =>
        /\ sch = New(stdMsgs).sch
        /\ laneSets = New(stdMsgs).sets

\* a schedule of three messages whose workers met a known and an unknown callee
DeterminismWitness ==
    /\ pc = "idle" /\ Len(stdMsgs) = 3
    /\ Len(sch.Unknows) = 1
    /\ Len(sch.Generations) = 1 /\ Len(sch.Generations[1]) = 2
    /\ sch.Generations[1][1][1].ID > sch.Unknows[1].ID

\* the batches that hold the messages of msgs in another order
PermutationsOf(msgs) ==
    {[i \in 1..Len(msgs) |-> msgs[f[i]]] :
        f \in {g \in [1..Len(msgs) -> 1..Len(msgs)] :
                  \A i, j \in 1..Len(msgs) : g[i] = g[j] => i = j}}

\* the category of s that holds message m and, for a generation, its index
PlaceOf(s, m) ==
    IF Contains(s.Transfers, m) THEN <<"Transfers", 0>>
    ELSE IF Contains(s.Deployments, m) THEN <<"Deployments", 0>>
    ELSE IF Contains(s.Unknows, m) THEN <<"Unknows", 0>>
    ELSE IF Contains(s.Sequentials, m) THEN <<"Sequentials", 0>>
    ELSE IF Contains(s.WithConflict, m) THEN <<"WithConflict", 0>>
    ELSE <<"Generations",
           CHOOSE g \in 0..Len(s.Generations) :
               g # 0 => Contains(Flatten(s.Generations[g]), m)>>

\* two registry calls, then batches of up to MaxBatchOrder messages
OrderBatches == Batches(SchedCallers, MaxBatchOrder)

OrderNext ==
    \/ DoFind(SchedCallers, MaxSetup)
    \/ DoAdd(SchedCallers, MaxSetup)
    \/ DoAddDeferred(SchedCallers, MaxSetup)
    \/ DoImport(SchedTransitions, MaxSetup)
    \/ DoNew(OrderBatches)
    \/ Release

SpecOrder == Init /\ [][OrderNext]_vars

\* C11: with the registry fixed and message ids distinct, every message
\* lands in the same category and the same generation index whatever the
\* order in which the batch lists the messages.
OrderIndependent ==
    (pc = "idle" /\ stdMsgs # <<>>) =>
        \A p \in PermutationsOf(stdMsgs) :
            \A m \in Range(stdMsgs) : PlaceOf(New(p).sch, m) = PlaceOf(sch, m)

-----------------------------------------------------------------------------
(* The arbitrator (second file of src/unnamed/part_001).  A transition is a
   record of what the arbitrator reads of a Univalue: its path, tx,
   sequence, the three access counts, the value and the deleted mark.  A
   value is nil, plain bytes, or a bounded cumulative number with its
   declared min and max and the delta it contributes. *)

MaxTrans == 3      \* transitions inserted into one batch
MaxInsert == 2     \* transitions per Insert call
MaxDetect == 2     \* Detect calls on one batch

ArbPaths == {1, 2}
TxIds == 0..2
BoundsSet == {<<0, 2>>, <<0, 3>>}
Deltas == {1, 2}

NilPayload == [kind |-> "nil", min |-> 0, max |-> 0, delta |-> 0]
BytesPayload == [kind |-> "bytes", min |-> 0, max |-> 0, delta |-> 0]
Bounded(b, d) == [kind |-> "bounded", min |-> b[1], max |-> b[2], delta |-> d]

Access(reads, writes, deltaWrites, value, isDeleted) ==
    [reads |-> reads, writes |-> writes, deltaWrites |-> deltaWrites,
     value |-> value, isDeleted |-> isDeleted]

NewUnivalue(tx, path, a) ==
    [tx |-> tx, path |-> path, sequence |-> 0, reads |-> a.reads, writes |-> a.writes,
     deltaWrites |-> a.deltaWrites, value |-> a.value, isDeleted |-> a.isDeleted]

\* the transition classifier
IsReadOnly(v) == v.writes = 0 /\ v.deltaWrites = 0 /\ v.reads > 0
IsDeltaWriteOnly(v) == v.writes = 0 /\ v.deltaWrites > 0 /\ v.reads = 0
IsDeleteOnly(v) == v.writes = 1 /\ v.value.kind = "nil" /\ v.reads = 0 /\ v.isDeleted
IsNilInitOnly(v) ==
    v.writes = 1 /\ v.deltaWrites = 0 /\ v.value.kind = "nil" /\ v.reads = 0 /\ ~v.isDeleted
IsCumulativeWriteOnly(v, first) ==
    /\ v.value.kind = "bounded" /\ v.reads = 0
    /\ first.value.kind = "bounded"
    /\ v.value.min = first.value.min /\ v.value.max = first.value.max

\* the accesses the batches are made of
ReadAccess == Access(1, 0, 0, BytesPayload, FALSE)
DeltaAccess == Access(0, 0, 1, BytesPayload, FALSE)
DeleteAccess == Access(0, 1, 0, NilPayload, TRUE)
NilInitAccess == Access(0, 1, 0, NilPayload, FALSE)
WriteAccess == Access(0, 2, 0, BytesPayload, FALSE)
ReadWriteAccess == Access(1, 1, 0, BytesPayload, FALSE)
CumulativeAccesses == {Access(0, 1, 0, Bounded(b, d), FALSE) : b \in BoundsSet, d \in Deltas}
BoundedDeltaAccesses == {Access(0, 0, 1, Bounded(b, 2), FALSE) : b \in BoundsSet}

Accesses ==
    {ReadAccess, DeltaAccess, DeleteAccess, NilInitAccess, WriteAccess, ReadWriteAccess}
        \cup CumulativeAccesses \cup BoundedDeltaAccesses

\* every access on path 1, reads and plain writes on path 2
Univalues ==
    {NewUnivalue(tx, 1, a) : tx \in TxIds, a \in Accesses}
        \cup {NewUnivalue(tx, 2, a) : tx \in TxIds, a \in {ReadAccess, WriteAccess}}

\* number of transitions the dictionary d holds
RECURSIVE Held(_, _)
Held(d, ks) ==
    IF ks = {} THEN 0
    ELSE LET k == CHOOSE x \in ks : TRUE IN Len(d[k]) + Held(d, ks \ {k})

RECURSIVE Insert(_, _, _)
\* Insert whose promotion of a bare entry to a slice keeps the new transition only
InsertPromotionDrops(d, sequenceIDs, newTrans) ==
    IF newTrans = <<>> THEN d
    ELSE LET tran == [Head(newTrans) EXCEPT !.sequence = Head(sequenceIDs)]
             d1 == IF tran.path \notin DOMAIN d
                   THEN d @@ (tran.path :> <<tran>>)
                   ELSE IF Len(d[tran.path]) = 1
                        THEN [d EXCEPT ![tran.path] = <<tran>>]
                        ELSE [d EXCEPT ![tran.path] = Append(@, tran)]
         IN Insert(d1, Tail(sequenceIDs), Tail(newTrans))

\* Arbitrator.Insert on the dictionary d.  An entry holding one transition
\* stands for the bare *Univalue, a longer one for the slice.
Insert(d, sequenceIDs, newTrans) ==
    IF newTrans = <<>> THEN d
    ELSE LET tran == [Head(newTrans) EXCEPT !.sequence = Head(sequenceIDs)]
             d1 == IF tran.path \notin DOMAIN d
                   THEN d @@ (tran.path :> <<tran>>)
                   ELSE [d EXCEPT ![tran.path] = Append(@, tran)]
         IN Insert(d1, Tail(sequenceIDs), Tail(newTrans))

\* Univalues.SortByTx, on transitions of different transactions
SortByTx(newTrans) ==
    CHOOSE t \in PermutationsOf(newTrans) :
        \A i, j \in 1..Len(t) : i < j => t[i].tx <= t[j].tx

\* slice.FindFirstIf: the 0-based position of the first element with P, or -1
FindFirstIf(s, P(_)) ==
    IF \E i \in 1..Len(s) : P(s[i])
    THEN (CHOOSE i \in 1..Len(s) : P(s[i]) /\ \A j \in 1..(i - 1) : ~P(s[j])) - 1
    ELSE -1

BySequence(trans) ==
    CHOOSE t \in PermutationsOf(trans) :
        \A i, j \in 1..Len(t) : i < j => t[i].sequence <= t[j].sequence

RECURSIVE PartialSum(_, _)
PartialSum(trans, k) == IF k = 0 THEN 0 ELSE PartialSum(trans, k - 1) + trans[k].value.delta

\* the tx ids with the first one listed once more
TxOfTwice(trans) == [i \in 1..(Len(trans) + 1) |-> trans[IF i = 1 THEN 1 ELSE i - 1].tx]

TxOf(trans) == [i \in 1..Len(trans) |-> trans[i].tx]
SequenceOf(trans) == [i \in 1..Len(trans) |-> trans[i].sequence]

\* Accumulator.CheckMinMax: the cumulative writes among trans are folded in
\* sequence order; the first whose partial sum leaves the declared bounds is
\* named with the ones that follow it.  No conflict is <<>>.
CheckMinMax(trans) ==
    LET cum == BySequence(SelectSeq(trans, LAMBDA v : v.value.kind = "bounded"))
        out == {k \in 1..Len(cum) :
                   \/ PartialSum(cum, k) < cum[1].value.min
                   \/ PartialSum(cum, k) > cum[1].value.max}
    IN IF out = {} THEN <<>>
       ELSE LET k == CHOOSE x \in out : \A y \in out : x <= y
                rest == SubSeq(cum, k + 1, Len(cum))
            IN <<[key |-> cum[k].path, self |-> cum[k].tx, selfTran |-> cum[k],
                  sequenceID |-> SequenceOf(rest), conflictTrans |-> rest,
                  txIDs |-> TxOf(rest), Err |-> "accumulator_out_of_bounds"]>>

\* the branch of LookupForConflict that the first transition selects
BranchOf(first) ==
    IF IsReadOnly(first) THEN "read with non read only"
    ELSE IF IsCumulativeWriteOnly(first, first)
         THEN "Commutative Initialization with non commutative initialization"
    ELSE IF IsDeltaWriteOnly(first) THEN "Delta write with non delta write only"
    ELSE IF IsDeleteOnly(first) THEN "Delete with non delete only"
    ELSE IF IsNilInitOnly(first) THEN "Nil initialization with non nil initialization"
    ELSE "nil"

\* the scan without the delete-only branch
OffsetOfNoDelete(first, subTrans) ==
    IF IsReadOnly(first) THEN FindFirstIf(subTrans, LAMBDA v : ~IsReadOnly(v))
    ELSE IF IsCumulativeWriteOnly(first, first)
         THEN FindFirstIf(subTrans, LAMBDA v : ~IsCumulativeWriteOnly(v, first))
    ELSE IF IsDeltaWriteOnly(first) THEN FindFirstIf(subTrans, LAMBDA v : ~IsDeltaWriteOnly(v))
    ELSE IF IsNilInitOnly(first) THEN FindFirstIf(subTrans, LAMBDA v : ~IsNilInitOnly(v))
    ELSE 0

OffsetOf(first, subTrans) ==
    IF IsReadOnly(first) THEN FindFirstIf(subTrans, LAMBDA v : ~IsReadOnly(v))
    ELSE IF IsCumulativeWriteOnly(first, first)
         THEN FindFirstIf(subTrans, LAMBDA v : ~IsCumulativeWriteOnly(v, first))
    ELSE IF IsDeltaWriteOnly(first) THEN FindFirstIf(subTrans, LAMBDA v : ~IsDeltaWriteOnly(v))
    ELSE IF IsDeleteOnly(first) THEN FindFirstIf(subTrans, LAMBDA v : ~IsDeleteOnly(v))
    ELSE IF IsNilInitOnly(first) THEN FindFirstIf(subTrans, LAMBDA v : ~IsNilInitOnly(v))
    ELSE 0

\* the group without its first transition
GroupAfterFirst(newTrans) == Tail(newTrans)

\* what LookupForConflict hands to the accumulator when nothing is incompatible
WholeGroup(newTrans) == newTrans

\* a plain first transition taken as compatible with what follows
LookupSortedPlainFree(newTrans) ==
    LET first == newTrans[1]
        subTrans == Tail(newTrans)
        offset == IF BranchOf(first) = "nil" THEN -1 ELSE OffsetOf(first, subTrans)
        found == SubSeq(newTrans, offset + 2, Len(newTrans))
    IN IF offset < 0 THEN CheckMinMax(WholeGroup(newTrans))
       ELSE IF CheckMinMax(SubSeq(newTrans, 1, offset)) # <<>>
            THEN CheckMinMax(SubSeq(newTrans, 1, offset))
       ELSE <<[key |-> first.path, self |-> first.tx, selfTran |-> first,
               sequenceID |-> SequenceOf(found), conflictTrans |-> found,
               txIDs |-> TxOf(found), Err |-> BranchOf(first)]>>

\* Arbitrator.LookupForConflict on a group sorted by tx; nil is <<>>
LookupSorted(newTrans) ==
    LET first == newTrans[1]
        subTrans == Tail(newTrans)
        offset == OffsetOf(first, subTrans)
        found == SubSeq(newTrans, offset + 2, Len(newTrans))
    IN IF offset < 0 THEN CheckMinMax(WholeGroup(newTrans))
       ELSE IF CheckMinMax(SubSeq(newTrans, 1, offset)) # <<>>
            THEN CheckMinMax(SubSeq(newTrans, 1, offset))
       ELSE <<[key |-> first.path, self |-> first.tx, selfTran |-> first,
               sequenceID |-> SequenceOf(found), conflictTrans |-> found,
               txIDs |-> TxOf(found), Err |-> BranchOf(first)]>>

LookupForConflict(newTrans) == LookupSorted(SortByTx(newTrans))

RECURSIVE DetectIn(_, _)
\* Arbitrator.Detect with the keys of the dictionary listed in the order keys
DetectIn(d, keys) ==
    IF keys = <<>> THEN <<>>
    ELSE (IF Len(d[Head(keys)]) > 1 THEN LookupForConflict(d[Head(keys)]) ELSE <<>>)
             \o DetectIn(d, Tail(keys))

\* the dictionary after Detect: the groups are left sorted by tx
Scanned(d) == [k \in DOMAIN d |-> IF Len(d[k]) > 1 THEN SortByTx(d[k]) ELSE d[k]]

\* maps.Keys: the keys of the dictionary in an order Go does not fix
KeyOrders(d) ==
    {ks \in [1..Cardinality(DOMAIN d) -> DOMAIN d] :
        \A i, j \in 1..Cardinality(DOMAIN d) : ks[i] = ks[j] => i = j}

InsertBatches == SeqsUpTo(Univalues, MaxInsert) \ {<<>>}

\* the sequence ids the caller hands to Insert: the positions in the batch
NextSequenceIDs(newTrans) ==
    [i \in 1..Len(newTrans) |-> Held(dict, DOMAIN dict) + i - 1]

\* the transitions of a batch as Insert leaves them: Setsequence has been called
Sequenced(sequenceIDs, newTrans) ==
    [i \in 1..Len(newTrans) |-> [newTrans[i] EXCEPT !.sequence = sequenceIDs[i]]]

SingleBatches == {newTrans \in InsertBatches : Len(newTrans) = 1}

\* the batches among B and its one-transition batches B1 that keep the
\* dictionary within max transitions
BatchesNow(B, B1, max) ==
    LET room == max - Held(dict, DOMAIN dict)
    IN IF room >= MaxInsert THEN B
       ELSE IF room >= 1 THEN B1
       ELSE {}

\* a transaction has one transition per path
Insertable(newTrans) ==
    /\ \A i, j \in 1..Len(newTrans) :
          (i # j /\ newTrans[i].path = newTrans[j].path) => newTrans[i].tx # newTrans[j].tx
    /\ \A i \in 1..Len(newTrans) :
          newTrans[i].path \in DOMAIN dict =>
              \A v \in Range(dict[newTrans[i].path]) : v.tx # newTrans[i].tx

ArbInsert(B, B1, max) ==
    /\ detected = <<>>
    /\ \E newTrans \in BatchesNow(B, B1, max) :
        /\ Insertable(newTrans)
        /\ dict' = Insert(dict, NextSequenceIDs(newTrans), newTrans)
        /\ inserted' = inserted \o Sequenced(NextSequenceIDs(newTrans), newTrans)
    /\ UNCHANGED detected /\ UNCHANGED scanning /\ UNCHANGED schedVars /\ UNCHANGED wildVars

ArbDetect ==
    /\ Len(detected) < MaxDetect
    /\ \E keys \in KeyOrders(dict) :
        detected' = Append(detected, DetectIn(dict, keys))
    /\ dict' = Scanned(dict)
    /\ UNCHANGED <<scanning, inserted>> /\ UNCHANGED schedVars /\ UNCHANGED wildVars

ArbInsertAndDetect(B, B1, max) ==
    /\ detected = <<>>
    /\ \E newTrans \in BatchesNow(B, B1, max) :
        /\ Insertable(newTrans)
        /\ LET d == Insert(dict, NextSequenceIDs(newTrans), newTrans)
           IN /\ \E keys \in KeyOrders(d) : detected' = <<DetectIn(d, keys)>>
              /\ dict' = Scanned(d)
        /\ inserted' = inserted \o Sequenced(NextSequenceIDs(newTrans), newTrans)
    /\ UNCHANGED scanning /\ UNCHANGED schedVars /\ UNCHANGED wildVars

ArbClear ==
    /\ dict # <<>>
    /\ dict' = <<>>
    /\ detected' = <<>>
    /\ inserted' = <<>>
    /\ UNCHANGED scanning /\ UNCHANGED schedVars /\ UNCHANGED wildVars

ArbNext ==
    \/ ArbInsert(InsertBatches, SingleBatches, MaxTrans)
    \/ ArbDetect
    \/ ArbInsertAndDetect(InsertBatches, SingleBatches, MaxTrans)
    \/ ArbClear

SpecArb == Init /\ [][ArbNext]_vars

\* batches of reads and plain writes of two transactions on both paths
MaxTransKeys == 4  \* transitions inserted into one batch of SpecArbKeys
KeyUnivalues ==
    {NewUnivalue(tx, path, a) : tx \in {0, 1}, path \in ArbPaths, a \in {ReadAccess, WriteAccess}}
KeyBatches == SeqsUpTo(KeyUnivalues, MaxInsert) \ {<<>>}
KeySingleBatches == {newTrans \in KeyBatches : Len(newTrans) = 1}

ArbKeysNext ==
    \/ ArbInsert(KeyBatches, KeySingleBatches, MaxTransKeys)
    \/ ArbDetect
    \/ ArbInsertAndDetect(KeyBatches, KeySingleBatches, MaxTransKeys)
    \/ ArbClear

SpecArbKeys == Init /\ [][ArbKeysNext]_vars

-----------------------------------------------------------------------------
(* Arbitrator properties *)

\* the conflicts that the latest Detect returned for key k
ConflictsAt(k) == SelectSeq(detected[Len(detected)], LAMBDA c : c.key = k)

\* the groups that the latest Detect scanned
Groups == {k \in DOMAIN dict : Len(dict[k]) > 1}

AllOf(group, P(_)) == \A i \in 1..Len(group) : P(group[i])

\* every partial sum of the group, folded in sequence order, is within the
\* bounds that the group declares
SumWithinBounds(group) ==
    LET cum == BySequence(group)
    IN \A n \in 1..Len(cum) :
          /\ PartialSum(cum, n) >= cum[1].value.min
          /\ PartialSum(cum, n) <= cum[1].value.max

IsCumulativeGroup(group) ==
    AllOf(group, LAMBDA v : IsCumulativeWriteOnly(v, group[1]))

\* C12 as stated: a group whose members are all read-only, all delete-only,
\* all delta-write-only, or all cumulative with the same bounds and a running
\* sum within them, gets no conflict.
SameClassNoConflict ==
    detected # <<>> =>
        \A k \in Groups :
            (\/ AllOf(dict[k], IsReadOnly)
             \/ AllOf(dict[k], IsDeleteOnly)
             \/ AllOf(dict[k], IsDeltaWriteOnly)
             \/ IsCumulativeGroup(dict[k]) /\ SumWithinBounds(dict[k]))
                => ConflictsAt(k) = <<>>

\* C12: a group whose members are all read-only, all delete-only, all
\* delta-write-only with no bounded cumulative value among them, or all
\* cumulative write-only (deltas on a bounded value included) with the same
\* bounds and a running sum within them, gets no conflict.
SameClassNoConflictAmended ==
    detected # <<>> =>
        \A k \in Groups :
            (\/ AllOf(dict[k], IsReadOnly)
             \/ AllOf(dict[k], IsDeleteOnly)
             \/ AllOf(dict[k], LAMBDA v : IsDeltaWriteOnly(v) /\ v.value.kind # "bounded")
             \/ IsCumulativeGroup(dict[k]) /\ SumWithinBounds(dict[k]))
                => ConflictsAt(k) = <<>>

\* a cumulative write and a delta on the same bounded value whose sum stays
\* within the bounds, scanned without conflict
SameClassWitness ==
    /\ detected # <<>> /\ 1 \in DOMAIN dict
    /\ Len(dict[1]) = 2
    /\ IsCumulativeGroup(dict[1]) /\ SumWithinBounds(dict[1])
    /\ \E i \in 1..2 : IsDeltaWriteOnly(dict[1][i])
    /\ \E i \in 1..2 : ~IsDeltaWriteOnly(dict[1][i])
    /\ ConflictsAt(1) = <<>>

IsPlain(v) == BranchOf(v) = "nil"

\* C13: a group of two nil-init-only transitions of different transactions
\* gets exactly one conflict, with the lower tx as self and the other one as
\* the conflicting tx.
NilInitExclusive ==
    detected # <<>> =>
        \A k \in Groups :
            (Len(dict[k]) = 2 /\ AllOf(dict[k], IsNilInitOnly)) =>
                /\ Len(ConflictsAt(k)) = 1
                /\ ConflictsAt(k)[1].self = SortByTx(dict[k])[1].tx
                /\ ConflictsAt(k)[1].txIDs = <<SortByTx(dict[k])[2].tx>>

\* C14: a group whose lowest-tx transition is in none of the five classes
\* gets a conflict whose txIDs are the tx ids of all the other transitions.
PlainFirstConflicts ==
    detected # <<>> =>
        \A k \in Groups :
            IsPlain(SortByTx(dict[k])[1]) =>
                /\ Len(ConflictsAt(k)) = 1
                /\ ConflictsAt(k)[1].self = SortByTx(dict[k])[1].tx
                /\ ConflictsAt(k)[1].txIDs = TxOf(Tail(SortByTx(dict[k])))

\* a plain write of the lowest tx, inserted last, with a read and a
\* cumulative write after it: both are named
PlainFirstWitness ==
    /\ detected # <<>> /\ 1 \in DOMAIN dict
    /\ Len(dict[1]) = 3
    /\ IsPlain(dict[1][1]) /\ dict[1][1].sequence = 2
    /\ IsReadOnly(dict[1][2]) /\ dict[1][3].value.kind = "bounded"
    /\ Len(ConflictsAt(1)) = 1 /\ Len(ConflictsAt(1)[1].txIDs) = 2

\* C15: in every conflict returned by Detect the tx ids are as many as the
\* conflicting transitions and self is not among them.
ConflictWellFormed ==
    \A n \in 1..Len(detected) :
        \A i \in 1..Len(detected[n]) :
            /\ Len(detected[n][i].txIDs) = Len(detected[n][i].conflictTrans)
            /\ ~Contains(detected[n][i].txIDs, detected[n][i].self)

\* two runs have each returned a class conflict that names two transitions
WellFormedWitness ==
    /\ Len(detected) = 2
    /\ \A n \in 1..2 :
          \E i \in 1..Len(detected[n]) :
              /\ detected[n][i].Err # "accumulator_out_of_bounds"
              /\ Len(detected[n][i].txIDs) = 2

AccumulatorConflictsAt(k) ==
    SelectSeq(ConflictsAt(k), LAMBDA c : c.Err = "accumulator_out_of_bounds")

\* the position, in sequence order, of the first partial sum out of bounds
FirstOut(cum) ==
    CHOOSE n \in 1..Len(cum) :
        /\ PartialSum(cum, n) < cum[1].value.min \/ PartialSum(cum, n) > cum[1].value.max
        /\ \A m \in 1..(n - 1) :
              PartialSum(cum, m) >= cum[1].value.min /\ PartialSum(cum, m) <= cum[1].value.max

\* C16: a group of cumulative writes with the same bounds gets no
\* accumulator conflict when every partial sum, in sequence order, is within
\* the bounds, and otherwise exactly one, naming the earliest transition
\* whose partial sum leaves them.
CumulativeBoundSafety ==
    detected # <<>> =>
        \A k \in Groups :
            IsCumulativeGroup(dict[k]) =>
                IF SumWithinBounds(dict[k]) THEN AccumulatorConflictsAt(k) = <<>>
                ELSE /\ Len(AccumulatorConflictsAt(k)) = 1
                     /\ Len(ConflictsAt(k)) = 1
                     /\ AccumulatorConflictsAt(k)[1].self
                            = BySequence(dict[k])[FirstOut(BySequence(dict[k]))].tx

\* three cumulative writes whose second, in sequence order, leaves the
\* bounds, inserted in an order that is not the tx order
CumulativeWitness ==
    /\ detected # <<>> /\ 1 \in DOMAIN dict
    /\ Len(dict[1]) = 3 /\ IsCumulativeGroup(dict[1])
    /\ FirstOut(BySequence(dict[1])) = 2 /\ ~SumWithinBounds(dict[1])
    /\ BySequence(dict[1])[2].tx = 0
    /\ Len(AccumulatorConflictsAt(1)) = 1 /\ AccumulatorConflictsAt(1)[1].self = 0

\* C17: two runs of Detect over the same inserted transitions return the
\* same conflicts in the same order.
DetectDeterministic ==
    Len(detected) = 2 => detected[1] = detected[2]

-----------------------------------------------------------------------------
(* Schedule.Optimize (appended to src/scheduler_test.go) *)

MaxSetupOpt == 1   \* registry calls before New in SpecOpt
MaxLateOpt == 1    \* registry calls between New and Optimize in SpecOpt
MaxBatchOpt == 3   \* messages per batch of SpecOpt

GenerateKey(msg) == Compact(msg.To, msg.Data)

RECURSIVE GroupBy(_)
\* slice.GroupBy on the compact key: the groups in the order in which their
\* keys first occur, each in the order of msgs.  The properties below do not
\* depend on the order of the groups.
GroupBy(msgs) ==
    IF msgs = <<>> THEN <<>>
    ELSE LET same(m) == GenerateKey(m) = GenerateKey(Head(msgs))
         IN <<SelectSeq(msgs, same)>> \o GroupBy(SelectSeq(msgs, LAMBDA m : ~same(m)))

\* the policy of ScheduleDeferred applied to a group of unknowns
DefersGroupAsNew(msgs) ==
    \/ deferByDefault
    \/ /\ GenerateKey(msgs[1]) \in DOMAIN calleeDict
       /\ callees[calleeDict[GenerateKey(msgs[1])] + 1].Deferrable

\* lines 303-314: is a deferred call scheduled for the group msgs
DefersGroup(msgs) ==
    IF GenerateKey(msgs[1]) \in DOMAIN calleeDict
    THEN callees[calleeDict[GenerateKey(msgs[1])] + 1].Deferrable
    ELSE deferByDefault

\* the ids of the messages that the loop of lines 300-326 marks IsDeferred
MarkedIDs(msgSets) ==
    {msgSets[i][Len(msgSets[i])].ID : i \in {j \in 1..Len(msgSets) : DefersGroup(msgSets[j])}}

Mark(ids, msgs) ==
    [i \in 1..Len(msgs) |-> IF msgs[i].ID \in ids THEN [msgs[i] EXCEPT !.IsDeferred = TRUE]
                            ELSE msgs[i]]

\* msgSets with every group left whole
KeptSetsWhole(msgSets) == [i \in 1..Len(msgSets) |-> msgSets[i]]

\* msgSets after the loop: a deferring group of two or more has lost its last
KeptSets(msgSets) ==
    [i \in 1..Len(msgSets) |->
        IF DefersGroup(msgSets[i]) /\ Len(msgSets[i]) > 1
        THEN SubSeq(msgSets[i], 1, Len(msgSets[i]) - 1)
        ELSE msgSets[i]]

\* the messages popped from the deferring groups, in the order of the groups
PoppedOf(msgSets) ==
    Flatten([i \in 1..Len(msgSets) |->
                IF DefersGroup(msgSets[i]) /\ Len(msgSets[i]) > 1
                THEN <<msgSets[i][Len(msgSets[i])]>>
                ELSE <<>>])

\* the rounds with the unknowns put before the generations
RoundsUnknownsFirst(first, gens, unknowsSeq, deferredSeq) ==
    <<first>> \o unknowsSeq \o deferredSeq \o gens

\* lines 285-338: the rounds in the order of the appends
Rounds(first, gens, unknowsSeq, deferredSeq) ==
    <<first>> \o gens \o unknowsSeq \o deferredSeq

\* the inner slice.RemoveIf works on a copy of the slice header: the lanes
\* that are not empty are moved to the front of the round, whose length the
\* outer slice keeps
Compacted(gen) ==
    SelectSeq(gen, LAMBDA msgs : Len(msgs) # 0) \o SelectSeq(gen, LAMBDA msgs : Len(msgs) = 0)

\* lines 342-347: the rounds without those that hold no message
RemoveEmpty(rounds) ==
    LET kept == SelectSeq(rounds, LAMBDA gen : \E i \in 1..Len(gen) : Len(gen[i]) # 0)
    IN [i \in 1..Len(kept) |-> Compacted(kept[i])]

OptimizeSpreads(s) ==
    LET msgSets == GroupBy(s.Unknows)
        ids == MarkedIDs(msgSets)
        unknowsSeq == Lanes(Mark(ids, Flatten(KeptSets(msgSets))))
        deferredSeq == Lanes(Mark(ids, PoppedOf(msgSets)))
        first == Lanes(s.Transfers \o s.Deployments \o s.WithConflict \o s.Sequentials)
    IN [rounds |-> RemoveEmpty(IF Len(s.Unknows) > 0
                               THEN Rounds(first, s.Generations, <<unknowsSeq>>, <<deferredSeq>>)
                               ELSE Rounds(first, s.Generations, <<>>, <<>>)),
        marked |-> ids]

\* Schedule.Optimize on the schedule s
Optimize(s) ==
    LET msgSets == GroupBy(s.Unknows)
        ids == MarkedIDs(msgSets)
        unknowsSeq == Lanes(Mark(ids, Flatten(KeptSets(msgSets))))
        deferredSeq == Lanes(Mark(ids, PoppedOf(msgSets)))
        first == <<s.Transfers \o s.Deployments, s.WithConflict \o s.Sequentials>>
    IN [rounds |-> RemoveEmpty(IF Len(s.Unknows) > 0
                               THEN Rounds(first, s.Generations, <<unknowsSeq>>, <<deferredSeq>>)
                               ELSE Rounds(first, s.Generations, <<>>, <<>>)),
        marked |-> ids]

OptBatches == Batches(SchedCallers, MaxBatchOpt)

\* a registry call made while a schedule is held and not yet optimized
CanCallLate == pc = "idle" /\ stdMsgs # <<>> /\ optimized = <<>> /\ nOps < MaxSetupOpt + MaxLateOpt

LateFind ==
    /\ CanCallLate
    /\ \E c \in SchedCallers :
        LET f == Find(Registry, c[1], c[2])
        IN RegistryCall(f.reg, [op |-> "Find", args |-> <<c>>, out |-> <<f.idx, f.ok>>,
                                was |-> KeyOf(c) \in DOMAIN calleeDict])

LateAddDeferred ==
    /\ CanCallLate
    /\ \E c \in SchedCallers :
        RegistryCall(AddDeferred(Registry, c[1], c[2]),
                     [op |-> "AddDeferred", args |-> <<c>>, out |-> <<>>, was |-> FALSE])

\* Schedule.Optimize: the messages are shared, so the marks show in the
\* schedule and in the batch as well
DoOptimize ==
    /\ pc = "idle" /\ stdMsgs # <<>> /\ optimized = <<>>
    /\ LET o == Optimize(sch)
       IN /\ optimized' = o.rounds
          /\ sch' = [sch EXCEPT !.Unknows = Mark(o.marked, @)]
          /\ stdMsgs' = Mark(o.marked, stdMsgs)
    /\ UNCHANGED arbVars /\ UNCHANGED wildVars /\ UNCHANGED loop
    /\ UNCHANGED <<calleeDict, callees, deferByDefault, ret, nOps, laneSets, pc, work>>

\* a registry call, a batch is scheduled, perhaps a registry call, Optimize
OptNext ==
    \/ DoFind(SchedCallers, MaxSetupOpt)
    \/ DoAdd(SchedCallers, MaxSetupOpt)
    \/ DoAddDeferred(SchedCallers, MaxSetupOpt)
    \/ DoImport(SchedTransitions, MaxSetupOpt)
    \/ DoNew(OptBatches)
    \/ LateFind
    \/ LateAddDeferred
    \/ DoOptimize
    \/ Release

SpecOpt == Init /\ [][OptNext]_vars

-----------------------------------------------------------------------------
(* Optimize properties *)

IDsOf(msgs) == {msgs[i].ID : i \in 1..Len(msgs)}

\* the messages of round r of the output
OutMsgs(r) == Flatten(optimized[r])

\* the round of the output that holds the message of this id
RoundOf(id) == CHOOSE r \in 1..Len(optimized) : id \in IDsOf(OutMsgs(r))

\* is the message of this id marked IsDeferred in the output
MarkedOut(id) ==
    \E r \in 1..Len(optimized) :
        \E i \in 1..Len(OutMsgs(r)) : OutMsgs(r)[i].ID = id /\ OutMsgs(r)[i].IsDeferred

FirstLanes == <<sch.Transfers \o sch.Deployments, sch.WithConflict \o sch.Sequentials>>

NonEmpty(gen) == SelectSeq(gen, LAMBDA msgs : Len(msgs) # 0)

\* the groups in the order of the claim: 0 for the four static lists, g for
\* generation g, one more than the number of generations for the unknowns
Rank(id) ==
    IF id \in IDsOf(Flatten(FirstLanes)) THEN 0
    ELSE IF id \in IDsOf(sch.Unknows) THEN Len(sch.Generations) + 1
    ELSE CHOOSE g \in 1..Len(sch.Generations) : id \in IDsOf(Flatten(sch.Generations[g]))

\* C18: in the output of Optimize a message of an earlier group (static
\* lists, then each generation in order, then the unknowns) is in an earlier
\* round; the static lists make one round whose lanes are transfers then
\* deployments and with-conflict then sequentials; every generation is one
\* round with its lanes unchanged; the unknowns take the last round or the
\* last two, the later one holding only messages marked deferred.
OptimizeLayout ==
    optimized # <<>> =>
        LET ids == IDsOf(stdMsgs)
        IN /\ \A i \in ids, j \in ids : Rank(i) < Rank(j) => RoundOf(i) < RoundOf(j)
           /\ \A i \in ids, j \in ids :
                 Rank(i) = Rank(j) /\ Rank(i) <= Len(sch.Generations) => RoundOf(i) = RoundOf(j)
           /\ Flatten(FirstLanes) # <<>> => NonEmpty(optimized[1]) = NonEmpty(FirstLanes)
           /\ \A g \in 1..Len(sch.Generations) :
                 \A i \in IDsOf(Flatten(sch.Generations[g])) :
                     optimized[RoundOf(i)] = sch.Generations[g]
           /\ \A i \in IDsOf(sch.Unknows) :
                 /\ RoundOf(i) >= Len(optimized) - 1
                 /\ \A j \in IDsOf(sch.Unknows) :
                       RoundOf(j) < RoundOf(i) => MarkedOut(i) /\ RoundOf(i) = Len(optimized)

\* a generation, the deferred generation split from it and an unknown have
\* been laid out in three rounds
LayoutWitness ==
    /\ Len(optimized) = 3
    /\ Len(sch.Generations) = 2
    /\ sch.Unknows # <<>>

\* C19: the output of Optimize has no round without lanes and no lane
\* without messages.
NoEmptyLanes ==
    \A r \in 1..Len(optimized) :
        /\ Len(optimized[r]) > 0
        /\ \A l \in 1..Len(optimized[r]) : Len(optimized[r][l]) > 0

\* the groups of two or more unknowns that share a compact key
UnknownGroups ==
    {msgs \in {GroupBy(sch.Unknows)[i] : i \in 1..Len(GroupBy(sch.Unknows))} : Len(msgs) >= 2}

\* the last message of the group is marked and is in the round right after
\* the round of all the others, which are not marked
LastDeferred(msgs) ==
    LET last == msgs[Len(msgs)].ID
    IN /\ MarkedOut(last)
       /\ \A i \in 1..(Len(msgs) - 1) :
             /\ ~MarkedOut(msgs[i].ID)
             /\ RoundOf(last) = RoundOf(msgs[i].ID) + 1

\* no message of the group is marked and all are in one round
NoneDeferred(msgs) ==
    \A i \in 1..Len(msgs) :
        /\ ~MarkedOut(msgs[i].ID)
        /\ RoundOf(msgs[i].ID) = RoundOf(msgs[1].ID)

KnownDeferrable(msgs) ==
    /\ GenerateKey(msgs[1]) \in DOMAIN calleeDict
    /\ callees[calleeDict[GenerateKey(msgs[1])] + 1].Deferrable

\* C20 as stated: a group of two or more unknowns has its last message
\* deferred when the callee is known-deferrable at optimize time or
\* deferByDefault is set, and is left alone otherwise.
UnknownDeferral ==
    optimized # <<>> =>
        \A msgs \in UnknownGroups :
            IF KnownDeferrable(msgs) \/ deferByDefault
            THEN LastDeferred(msgs) ELSE NoneDeferred(msgs)

\* C20: a group of two or more unknowns has its last message deferred when
\* the callee is in the registry at optimize time and deferrable, or is not
\* in the registry and deferByDefault is set, and is left alone otherwise.
UnknownDeferralAmended ==
    optimized # <<>> =>
        \A msgs \in UnknownGroups :
            IF \/ KnownDeferrable(msgs)
               \/ GenerateKey(msgs[1]) \notin DOMAIN calleeDict /\ deferByDefault
            THEN LastDeferred(msgs) ELSE NoneDeferred(msgs)

\* a group was deferred because its callee had become known-deferrable, and
\* another batch had a group left alone although deferByDefault is set
UnknownDeferralWitness ==
    /\ optimized # <<>>
    /\ \E msgs \in UnknownGroups :
          \/ KnownDeferrable(msgs) /\ ~deferByDefault /\ LastDeferred(msgs)
          \/ GenerateKey(msgs[1]) \notin DOMAIN calleeDict /\ deferByDefault /\ LastDeferred(msgs)

-----------------------------------------------------------------------------
(* StaticSchedule and the routing of sequential callees *)

MaxSetupStatic == 2   \* registry calls per behaviour of SpecStatic
MaxBatchStatic == 3   \* messages per batch of SpecStatic

\* the message kinds of SpecStatic: those of the other specifications and a
\* message with neither call data nor recipient
StaticKinds == MsgKinds(SchedCallers) \cup {<<Nil, <<>>>>}

\* the batches of at most n messages of the kinds K
BatchesOf(K, n) ==
    UNION {{[i \in 1..Len(kinds) |->
                [ID |-> ids[i], To |-> kinds[i][1], Data |-> kinds[i][2], IsDeferred |-> FALSE]] :
            ids \in IdLayouts(Len(kinds))} : kinds \in SeqsUpTo(K, n)}

StaticBatches == BatchesOf(StaticKinds, MaxBatchStatic)

\* is the callee of this key in the registry and flagged Sequential
FlaggedSequential(key) ==
    key \in DOMAIN calleeDict /\ callees[calleeDict[key] + 1].Sequential

\* Scheduler.Import of one transition; ret.was records whether the callee
\* the transition is about was flagged Sequential before the call
DoImportFlag(T, max) ==
    /\ CanCall(max)
    /\ \E v \in T :
        RegistryCall(Import(Registry, <<v>>),
                     [op |-> "Import", args |-> <<v>>, out |-> <<>>,
                      was |-> FlaggedSequential(Compact(v.path.addr, v.path.sign))])

StaticNext ==
    \/ DoAdd(SchedCallers, MaxSetupStatic)
    \/ DoImportFlag(SchedTransitions, MaxSetupStatic)
    \/ DoNew(StaticBatches)
    \/ Release

SpecStatic == Init /\ [][StaticNext]_vars

\* the messages of the batch in hand that satisfy P, by id
IDsWhere(P(_)) == {stdMsgs[i].ID : i \in {j \in 1..Len(stdMsgs) : P(stdMsgs[j])}}

Callable(m) == Len(m.Data) # 0 /\ m.To # Nil

\* the ids of the messages in the generations and in WithConflict
PairListIDs == IDsOf(Flatten(Flatten(sch.Generations))) \cup IDsOf(sch.WithConflict)

\* C21: after New, Transfers holds exactly the messages without call data,
\* Deployments exactly the messages with call data and no recipient, Unknows
\* exactly the other messages whose key is not in calleeDict, Sequentials
\* exactly the other messages whose callee is flagged Sequential, and the
\* generations and WithConflict hold exactly the messages that are left.
StaticPartition ==
    (pc = "idle" /\ stdMsgs # <<>>) =>
        /\ IDsOf(sch.Transfers) = IDsWhere(LAMBDA m : Len(m.Data) = 0)
        /\ IDsOf(sch.Deployments) = IDsWhere(LAMBDA m : Len(m.Data) # 0 /\ m.To = Nil)
        /\ IDsOf(sch.Unknows) =
              IDsWhere(LAMBDA m : Callable(m) /\ Compact(m.To, m.Data) \notin DOMAIN calleeDict)
        /\ IDsOf(sch.Sequentials) =
              IDsWhere(LAMBDA m : Callable(m) /\ FlaggedSequential(Compact(m.To, m.Data)))
        /\ PairListIDs =
              IDsWhere(LAMBDA m : /\ Callable(m)
                                  /\ Compact(m.To, m.Data) \in DOMAIN calleeDict
                                  /\ ~FlaggedSequential(Compact(m.To, m.Data)))

\* a message with neither call data nor recipient is among the transfers, next
\* to a deployment and a message to a sequential callee
StaticPartitionWitness ==
    /\ pc = "idle"
    /\ \E i \in 1..Len(sch.Transfers) : sch.Transfers[i].To = Nil
    /\ sch.Deployments # <<>>
    /\ sch.Sequentials # <<>>

\* C30: when the last registry call is an Import that sets the Sequential
\* flag of a callee, the schedule made after it has every message to that
\* callee in Sequentials and nowhere else; when it is an Import that clears
\* the flag, the schedule has every message to that callee in a generation
\* or in WithConflict.
SequentialRouting ==
    (pc = "idle" /\ stdMsgs # <<>> /\ ret.op = "Import") =>
        LET v == ret.args[1]
            to == IDsWhere(LAMBDA m : Callable(m) /\ Compact(m.To, m.Data) =
                                                        Compact(v.path.addr, v.path.sign))
        IN IF v.value.flag = SEQUENTIAL_EXECUTION
           THEN /\ to \subseteq IDsOf(sch.Sequentials)
                /\ to \cap (PairListIDs \cup IDsOf(sch.Unknows)) = {}
           ELSE /\ to \subseteq PairListIDs
                /\ to \cap (IDsOf(sch.Sequentials) \cup IDsOf(sch.Unknows)) = {}

\* the flag of a callee was set, an Import has cleared it, and a message to
\* the callee has gone through the pair list
SequentialRoutingWitness ==
    /\ pc = "idle" /\ stdMsgs # <<>>
    /\ ret.op = "Import" /\ ret.was
    /\ ret.args[1].value.flag # SEQUENTIAL_EXECUTION
    /\ \E i \in 1..Len(stdMsgs) :
          /\ Callable(stdMsgs[i])
          /\ Compact(stdMsgs[i].To, stdMsgs[i].Data) =
                Compact(ret.args[1].path.addr, ret.args[1].path.sign)
          /\ stdMsgs[i].ID \in PairListIDs

-----------------------------------------------------------------------------
(* The frame of New and Optimize *)

\* C22: a step of New or of Optimize leaves calleeDict and callees as they
\* were: no callee is entered and no field of a callee changes.
RegistryFrame ==
    [][(stdMsgs = <<>> /\ stdMsgs' # <<>>) \/ (optimized = <<>> /\ optimized' # <<>>)
          => (calleeDict' = calleeDict /\ callees' = callees)]_vars

\* a schedule with an unknown callee has been optimized and the callee is
\* still not in the registry
RegistryFrameWitness ==
    /\ optimized # <<>>
    /\ \E i \in 1..Len(sch.Unknows) :
          Compact(sch.Unknows[i].To, sch.Unknows[i].Data) \notin DOMAIN calleeDict

-----------------------------------------------------------------------------
(* The pair list and the generational loop *)

MaxSetupLoop == 2   \* registry calls per behaviour of SpecLoop
MaxBatchLoop == 4   \* messages per batch of SpecLoop

\* batches of calls only: every message goes to the pair list or to Unknows
LoopBatches == BatchesOf(SchedCallers, MaxBatchLoop)

LoopNext ==
    \/ DoFind(SchedCallers, MaxSetupLoop)
    \/ DoAdd(SchedCallers, MaxSetupLoop)
    \/ DoNew(LoopBatches)
    \/ Release

SpecLoop == Init /\ [][LoopNext]_vars

\* the pair list of the batch in hand after the sort of New
SortedPairs == SortSlice("conflicts", StaticSchedule(stdMsgs).pairs)

SizeOf(pair) == Len(callees[pair.First + 1].Indices)

\* C27: after the sort of New the pairs are in ascending order of the number
\* of conflicts of their callee and, where that is equal, of message id; and
\* the comparator never puts p before q and q before p.
PairListSorted ==
    (pc = "idle" /\ stdMsgs # <<>>) =>
        /\ \A i \in 1..(Len(SortedPairs) - 1) :
              LET p == SortedPairs[i]
                  q == SortedPairs[i + 1]
              IN \/ SizeOf(p) < SizeOf(q)
                 \/ SizeOf(p) = SizeOf(q) /\ p.Second.ID <= q.Second.ID
        /\ \A i, j \in 1..Len(SortedPairs) :
              ~(LessByConflicts(SortedPairs[i], SortedPairs[j])
                  /\ LessByConflicts(SortedPairs[j], SortedPairs[i]))

\* the pairs of lane-sets 1 to n
RECURSIVE LanePairs(_)
LanePairs(n) == IF n = 0 THEN {} ELSE LanePairs(n - 1) \cup Range(laneSets[n].lane)

\* the pair list at the start of iteration n of the loop: the sorted pairs
\* without those the earlier lane-sets took
ListAt(n) == SelectSeq(SortedPairs, LAMBDA p : p \notin LanePairs(n - 1))

\* C28: the generations hold exactly the messages of the lane-sets of two or
\* more messages; WithConflict holds, in the order of the pair list, exactly
\* the pairs no lane-set took, and when it is not empty its first message is
\* a seed that admitted no other pair of the list.
WithConflictRule ==
    (pc = "idle" /\ stdMsgs # <<>>) =>
        LET rest == ListAt(Len(laneSets) + 1)
        IN /\ \A n \in 1..Len(laneSets) : Len(laneSets[n].lane) >= 2
           /\ IDsOf(Flatten(Flatten(sch.Generations))) = {p.Second.ID : p \in LanePairs(Len(laneSets))}
           /\ sch.WithConflict = Seconds(rest)
           /\ rest # <<>> =>
                 \A i \in 2..Len(rest) :
                     ~Admissible(IndicesOf(rest[1].First), {rest[1].First}, rest[i])

\* a lane-set was put in a generation and a later seed with the pair after it
\* went to WithConflict
WithConflictWitness ==
    /\ pc = "idle"
    /\ Len(laneSets) >= 1
    /\ Len(sch.WithConflict) >= 2

\* the pairs of lane-set n that stand before position p of the list
Before(n, p) ==
    {ListAt(n)[k] : k \in {j \in 1..(p - 1) : ListAt(n)[j] \in Range(laneSets[n].lane)}}

\* C29: each lane-set starts with the front of the pair list and takes from
\* the rest, in order, exactly the pairs whose callee is in the Indices of no
\* pair taken before them and whose Indices hold no callee taken before them.
AdmissionRule ==
    (pc = "idle" /\ stdMsgs # <<>>) =>
        \A n \in 1..Len(laneSets) :
            /\ laneSets[n].lane = SelectSeq(ListAt(n), LAMBDA p : p \in Range(laneSets[n].lane))
            /\ laneSets[n].lane[1] = ListAt(n)[1]
            /\ \A p \in 2..Len(ListAt(n)) :
                  LET c == ListAt(n)[p]
                      taken == Before(n, p)
                  IN c \in Range(laneSets[n].lane) <=>
                        /\ c.First \notin UNION {IndicesOf(t.First) : t \in taken}
                        /\ IndicesOf(c.First) \cap {t.First : t \in taken} = {}

\* a lane-set took the pair after its seed and the pair after that one, and
\* a pair was rejected and seeded the next iteration
AdmissionWitness ==
    /\ pc = "idle"
    /\ \E n \in 1..Len(laneSets) : Len(laneSets[n].lane) = 3
    /\ \E n \in 1..Len(laneSets) : Len(ListAt(n + 1)) >= 1

-----------------------------------------------------------------------------
(* The content of the conflicts *)

\* is the transition v incompatible with the first transition of its group:
\* a class admits only its own members, a nil-init or plain first admits
\* nothing
IncompatibleWith(first, v) ==
    IF IsReadOnly(first) THEN ~IsReadOnly(v)
    ELSE IF IsCumulativeWriteOnly(first, first) THEN ~IsCumulativeWriteOnly(v, first)
    ELSE IF IsDeltaWriteOnly(first) THEN ~IsDeltaWriteOnly(v)
    ELSE IF IsDeleteOnly(first) THEN ~IsDeleteOnly(v)
    ELSE TRUE

\* the position in the sorted group of the first member incompatible with
\* the first one, 0 when there is none
FirstIncompatible(group) ==
    IF \E i \in 2..Len(group) : IncompatibleWith(group[1], group[i])
    THEN CHOOSE i \in 2..Len(group) :
            /\ IncompatibleWith(group[1], group[i])
            /\ \A j \in 2..(i - 1) : ~IncompatibleWith(group[1], group[j])
    ELSE 0

ClassConflictsAt(k) ==
    SelectSeq(ConflictsAt(k), LAMBDA c : c.Err # "accumulator_out_of_bounds")

\* C23: a conflict emitted for a class incompatibility has the tx of the
\* lowest-tx member as self and, as txIDs, the tx ids of the members from
\* the first one incompatible with that member to the end of the group, in
\* ascending order.
ConflictContent ==
    detected # <<>> =>
        \A k \in Groups :
            LET group == SortByTx(dict[k])
            IN \A i \in 1..Len(ClassConflictsAt(k)) :
                  /\ FirstIncompatible(group) # 0
                  /\ ClassConflictsAt(k)[i].self = group[1].tx
                  /\ ClassConflictsAt(k)[i].txIDs =
                        TxOf(SubSeq(group, FirstIncompatible(group), Len(group)))

\* the error kind of section 7 for the class of the first member
KindOf(first) ==
    IF IsReadOnly(first) THEN "read with non read only"
    ELSE IF IsCumulativeWriteOnly(first, first)
         THEN "Commutative Initialization with non commutative initialization"
    ELSE IF IsDeltaWriteOnly(first) THEN "Delta write with non delta write only"
    ELSE IF IsDeleteOnly(first) THEN "Delete with non delete only"
    ELSE "Nil initialization with non nil initialization"

\* C24: every conflict emitted has an error; a conflict emitted for a class
\* incompatibility whose first member is in one of the five classes has the
\* error of that class.
ErrorKindPresent ==
    detected # <<>> =>
        \A k \in Groups :
            \A i \in 1..Len(ConflictsAt(k)) :
                /\ ConflictsAt(k)[i].Err # "nil"
                /\ (ConflictsAt(k)[i].Err # "accumulator_out_of_bounds"
                      /\ ~IsPlain(SortByTx(dict[k])[1]))
                      => ConflictsAt(k)[i].Err = KindOf(SortByTx(dict[k])[1])

\* the members of the sorted group that precede the first one incompatible
\* with the first member
CompatiblePrefix(group) ==
    IF FirstIncompatible(group) = 0 THEN group
    ELSE SubSeq(group, 1, FirstIncompatible(group) - 1)

\* C25: a group whose first member is a cumulative write and in which the
\* cumulative writes before the first incompatible member leave their bounds
\* gets an accumulator conflict, and a group with a member incompatible with
\* the first one gets a class conflict, each whether or not the other is
\* there.
AccumulatorRegardless ==
    detected # <<>> =>
        \A k \in Groups :
            LET group == SortByTx(dict[k])
            IN /\ (IsCumulativeWriteOnly(group[1], group[1])
                     /\ CheckMinMax(CompatiblePrefix(group)) # <<>>)
                     => AccumulatorConflictsAt(k) # <<>>
               /\ (IsCumulativeWriteOnly(group[1], group[1]) /\ FirstIncompatible(group) # 0)
                     => ClassConflictsAt(k) # <<>>

-----------------------------------------------------------------------------
(* Arbitrator.Detect step by step: the workers of slice.ParallelForeach each
   scan the keys they are given, in any interleaving *)

\* every worker writing to the first slot of conflists
SlotOfShared(i) == 1

\* the slot of conflists that the worker on index i writes
SlotOf(i) == i

\* one access of a worker: the location and whether it is written
AccessTo(name, at, write) == [loc |-> <<name, at>>, write |-> write]

ArbInsertIdle(B, B1, max) == scanning = NoScan /\ ArbInsert(B, B1, max)

ArbClearIdle == scanning = NoScan /\ ArbClear

DetectBegin ==
    /\ scanning = NoScan /\ dict # <<>>
    /\ Len(detected) < MaxDetect
    /\ \E keys \in KeyOrders(dict) :
        scanning' = [keys |-> keys,
                     conflists |-> [i \in 1..Len(keys) |-> <<>>],
                     done |-> {},
                     accessed |-> [i \in 1..Len(keys) |-> {}]]
    /\ UNCHANGED <<dict, detected, inserted>> /\ UNCHANGED schedVars /\ UNCHANGED wildVars

\* the function handed to slice.ParallelForeach, for one index: it reads the
\* map, sorts the slice held at its key in place and writes its slot
DetectWorker ==
    /\ scanning # NoScan
    /\ \E i \in (1..Len(scanning.keys)) \ scanning.done :
        LET k == scanning.keys[i]
            isSlice == Len(dict[k]) > 1
        IN /\ dict' = IF isSlice THEN [dict EXCEPT ![k] = SortByTx(@)] ELSE dict
           /\ scanning' =
                 [scanning EXCEPT
                    !.conflists[SlotOf(i)] = IF isSlice THEN LookupForConflict(dict[k]) ELSE @,
                    !.done = @ \cup {i},
                    !.accessed[i] =
                        {AccessTo("this.dict", 0, FALSE)} \cup
                        (IF isSlice THEN {AccessTo("vArr", k, TRUE),
                                          AccessTo("conflists", SlotOf(i), TRUE)}
                         ELSE {})]
    /\ UNCHANGED <<detected, inserted>> /\ UNCHANGED schedVars /\ UNCHANGED wildVars

\* every worker has returned: slice.Remove(&conflists, nil)
DetectEnd ==
    /\ scanning # NoScan
    /\ scanning.done = 1..Len(scanning.keys)
    /\ detected' = Append(detected, Flatten(scanning.conflists))
    /\ scanning' = NoScan
    /\ UNCHANGED <<dict, inserted>> /\ UNCHANGED schedVars /\ UNCHANGED wildVars

ArbParNext ==
    \/ ArbInsertIdle(KeyBatches, KeySingleBatches, MaxTransKeys)
    \/ DetectBegin
    \/ DetectWorker
    \/ DetectEnd
    \/ ArbClearIdle

SpecArbPar == Init /\ [][ArbParNext]_vars

\* what Detect returns for the key k of the dictionary
ExpectedAt(k) == IF Len(dict[k]) > 1 THEN LookupForConflict(dict[k]) ELSE <<>>

\* C26: no two workers of a Detect access the same location unless both only
\* read it, every worker that has returned has left in its own slot the
\* conflict of its own key, and the conflicts that Detect returns are those
\* of the keys of the dictionary, whatever the order of the workers.
DetectRaceFree ==
    /\ \A i \in scanning.done, j \in scanning.done :
          i # j => \A a \in scanning.accessed[i], b \in scanning.accessed[j] :
                      a.loc = b.loc => ~a.write /\ ~b.write
    /\ \A i \in scanning.done : scanning.conflists[i] = ExpectedAt(scanning.keys[i])
    /\ scanning = NoScan =>
          \A n \in 1..Len(detected) :
              Range(detected[n]) = UNION {Range(ExpectedAt(k)) : k \in DOMAIN dict}

\* of two groups with a conflict each, the worker of the second index has
\* returned before the worker of the first
RaceFreeWitness ==
    /\ scanning # NoScan
    /\ Len(scanning.keys) = 2
    /\ scanning.done = {2}
    /\ scanning.conflists[2] # <<>>
    /\ ExpectedAt(scanning.keys[1]) # <<>>

-----------------------------------------------------------------------------
(* The frame of AddDeferred and Import, and the growth of the registry *)

\* does the path of v yield an address and a selector
Yields(v) == v.path.hasFuncPath /\ Len(v.path.sign) > 0 /\ Len(v.path.addr) > 0

\* the key of the callee the path of v names
NamedKey(v) == Compact(v.path.addr, v.path.sign)

\* the transitions of ts that carry a flag of the given suffix for the callee of key k
FlagsFor(ts, k, suffix) ==
    SelectSeq(ts, LAMBDA v : Yields(v) /\ NamedKey(v) = k
                             /\ v.path.suffix = suffix /\ ~v.value.nil)

RECURSIVE ExceptedFor(_, _)
\* the exceptions the transitions of ts list for the callee of key k, in order
ExceptedFor(ts, k) ==
    IF ts = <<>> THEN <<>>
    ELSE (IF Yields(Head(ts)) /\ NamedKey(Head(ts)) = k
             /\ Head(ts).path.suffix = "EXECUTION_EXCEPTED"
          THEN Head(ts).value.elems ELSE <<>>) \o ExceptedFor(Tail(ts), k)

\* the callee at position i before the step: the one that was there, or a
\* callee that was just interned, with no conflict and no flag
BeforeAt(i) ==
    IF i <= Len(callees) THEN callees[i]
    ELSE [Index |-> i - 1, AddrAndSign |-> callees'[i].AddrAndSign, Indices |-> <<>>,
          Sequential |-> FALSE, Except |-> <<>>, Deferrable |-> FALSE]

\* the step is AddDeferred(c): the callee of c is there and deferrable, and
\* nothing else differs
AddDeferredOnly(c) ==
    LET k == KeyOf(c)
    IN /\ DOMAIN calleeDict' = DOMAIN calleeDict \cup {k}
       /\ \A j \in DOMAIN calleeDict : calleeDict'[j] = calleeDict[j]
       /\ Len(callees') = Cardinality(DOMAIN calleeDict')
       /\ callees'[calleeDict'[k] + 1].AddrAndSign = k
       /\ \A i \in 1..Len(callees') :
             callees'[i] = IF i = calleeDict'[k] + 1
                           THEN [BeforeAt(i) EXCEPT !.Deferrable = TRUE]
                           ELSE BeforeAt(i)

\* the step is Import(ts): each callee has the flags the last transition
\* naming it gave, the exceptions listed for it are appended, and nothing
\* else differs
ImportOnly(ts) ==
    LET named == {NamedKey(ts[j]) : j \in {j \in 1..Len(ts) : Yields(ts[j])}}
    IN /\ DOMAIN calleeDict' = DOMAIN calleeDict \cup named
       /\ \A j \in DOMAIN calleeDict : calleeDict'[j] = calleeDict[j]
       /\ Len(callees') = Cardinality(DOMAIN calleeDict')
       /\ \A i \in 1..Len(callees') :
             LET old == BeforeAt(i)
                 new == callees'[i]
                 seq == FlagsFor(ts, new.AddrAndSign, "EXECUTION_PARALLELISM")
                 def == FlagsFor(ts, new.AddrAndSign, "REQUIRED_GAS_PREPAYMENT")
             IN /\ new.Index = old.Index
                /\ new.Indices = old.Indices
                /\ new.AddrAndSign = old.AddrAndSign
                /\ i > Len(callees) => new.AddrAndSign \in named
                /\ new.Sequential = IF seq = <<>> THEN old.Sequential
                                    ELSE seq[Len(seq)].value.flag = SEQUENTIAL_EXECUTION
                /\ new.Deferrable = IF def = <<>> THEN old.Deferrable
                                    ELSE def[Len(def)].value.flag > 0
                /\ new.Except = old.Except \o ExceptedFor(ts, new.AddrAndSign)

\* C31: AddDeferred and Import change only what they name: AddDeferred sets
\* only the Deferrable flag of the given callee, interning it first if
\* absent; Import sets only Sequential, Except or Deferrable of the callee
\* its path names, ignores a transition whose path yields no address or
\* selector, and neither changes an Index, an Indices list or a flag of
\* another callee.
FrameOfFlags ==
    [][/\ (nOps' = nOps + 1 /\ ret'.op = "AddDeferred") => AddDeferredOnly(ret'.args[1])
       /\ (nOps' = nOps + 1 /\ ret'.op = "Import") => ImportOnly(ret'.args[1])]_vars

\* an Import has set Sequential on a callee that lists a conflict, next to a
\* callee that an AddDeferred marked and that keeps its mark and its conflict
FrameOfFlagsWitness ==
    /\ ret.op = "Import" /\ Len(ret.args[1]) = 1 /\ Yields(ret.args[1][1])
    /\ Len(callees) = 2
    /\ \E i, j \in 1..2 :
          /\ i # j
          /\ callees[i].Sequential /\ ~callees[i].Deferrable /\ callees[i].Indices = <<j - 1>>
          /\ callees[i].AddrAndSign = NamedKey(ret.args[1][1])
          /\ callees[j].Deferrable /\ ~callees[j].Sequential /\ callees[j].Indices = <<i - 1>>

\* C32: the registry only grows: across Add, AddDeferred, Find, Import and
\* New no callee is removed or moved, no index is removed from an Indices
\* list, and every index in an Indices list is the index of a callee of the
\* registry.
RegistryGrows ==
    [][/\ Len(callees') >= Len(callees)
       /\ \A k \in DOMAIN calleeDict : k \in DOMAIN calleeDict'
       /\ \A i \in 1..Len(callees) :
             /\ callees'[i].Index = callees[i].Index
             /\ callees'[i].AddrAndSign = callees[i].AddrAndSign
             /\ \A x \in Range(callees[i].Indices) : Contains(callees'[i].Indices, x)
       /\ \A i \in 1..Len(callees') :
             \A x \in Range(callees'[i].Indices) : x \in 0..(Len(callees') - 1)]_vars

\* a batch was scheduled on a registry of three callees built by two calls,
\* one of them listing both others
RegistryGrowsWitness ==
    /\ stdMsgs # <<>> /\ sch.Generations # <<>>
    /\ nOps = 2
    /\ Len(callees) = 3
    /\ \E i \in 1..3 : Len(callees[i].Indices) = 2

-----------------------------------------------------------------------------
(* The wildcard handler *)

MaxWildOps == 2   \* calls of Filter and Expand per behaviour
MaxFilter == 2    \* transitions per Filter call

\* A path is a string, held as the sequence of its parts: the letters "a"
\* and "b" and the markers "*" and "[:]".  Ord is the first byte of a part
\* and PartLen its number of bytes, so that length, order and prefix of the
\* sequences are those of the strings.
Ord(part) == CASE part = "*" -> 42 [] part = "[:]" -> 91 [] part = "a" -> 97 [] OTHER -> 98
PartLen(part) == IF part = "[:]" THEN 3 ELSE 1

RECURSIVE ByteLen(_)
\* len(path)
ByteLen(path) == IF path = <<>> THEN 0 ELSE PartLen(Head(path)) + ByteLen(Tail(path))

RECURSIVE StringLess(_, _)
\* path a < path b, the order of Go strings
StringLess(a, b) ==
    IF b = <<>> THEN FALSE
    ELSE IF a = <<>> THEN TRUE
    ELSE IF Head(a) = Head(b) THEN StringLess(Tail(a), Tail(b))
    ELSE Ord(Head(a)) < Ord(Head(b))

\* strings.HasPrefix(s, prefix)
HasPrefix(s, prefix) == Len(prefix) <= Len(s) /\ SubSeq(s, 1, Len(prefix)) = prefix

\* the test of Filter: the path contains "*" or "[:]"
ContainsMarker(path) == \E i \in 1..Len(path) : path[i] \in {"*", "[:]"}

\* a transition as the handler sees it
WildUnivalue(tx, path, preexist) ==
    [tx |-> tx, path |-> path, writes |-> 1, deltaWrites |-> 0, value |-> BytesPayload,
     preexist |-> preexist, expanded |-> FALSE]

\* Wildcard.Filter on the held list w
Filter(w, trans) ==
    [WildcardTrans |-> w \o SelectSeq(trans, LAMBDA tran : ContainsMarker(tran.path)),
     out |-> trans]

\* the comparator of the sort.SliceStable call in Wildcard.Expand
LessByPath(a, b) == ByteLen(a.path) < ByteLen(b.path) \/ StringLess(a.path, b.path)

RECURSIVE InsertBackByPath(_, _)
\* sort.SliceStable on at most 20 elements is an insertion sort
InsertBackByPath(s, j) ==
    IF j > 1 /\ LessByPath(s[j], s[j - 1])
    THEN InsertBackByPath(Swap(s, j, j - 1), j - 1)
    ELSE s

RECURSIVE SortStableFrom(_, _)
SortStableFrom(s, i) ==
    IF i > Len(s) THEN s ELSE SortStableFrom(InsertBackByPath(s, i), i + 1)

SliceStable(s) == SortStableFrom(s, 2)

\* the test as Substitute makes it, whether or not the key preexists
ExpandsAbsent(wildcard, trans) ==
    /\ ByteLen(wildcard.path) # ByteLen(trans[1].path)
    /\ HasPrefix(trans[1].path, wildcard.path)
    /\ \A i \in 1..Len(trans) : trans[i].tx # wildcard.tx

\* is the wildcard expanded onto the group trans
Expands(wildcard, trans) ==
    /\ ByteLen(wildcard.path) # ByteLen(trans[1].path)
    /\ HasPrefix(trans[1].path, wildcard.path)
    /\ \A i \in 1..Len(trans) : trans[i].tx # wildcard.tx
    /\ trans[1].preexist

\* the transition Expand makes of the wildcard for the key k
NewUnival(wildcard, k) ==
    [wildcard EXCEPT !.expanded = TRUE, !.writes = @ + 1, !.path = k, !.value = NilPayload]

RECURSIVE ExpandLoop(_, _, _, _)
\* the loop of Expand over the held wildcards, from the i-th on
ExpandLoop(wildcards, trans, allExpanded, i) ==
    IF i > Len(wildcards) THEN [trans |-> trans, out |-> allExpanded]
    ELSE IF Expands(wildcards[i], trans)
         THEN LET newUnival == NewUnival(wildcards[i], trans[1].path)
              IN ExpandLoop(wildcards, Append(trans, newUnival),
                            Append(allExpanded, newUnival), i + 1)
         ELSE ExpandLoop(wildcards, trans, allExpanded, i + 1)

\* Wildcard.Expand on the held list w and the group trans
Expand(w, trans) ==
    IF Len(w) = 0 THEN [WildcardTrans |-> w, trans |-> trans, out |-> <<>>]
    ELSE LET e == ExpandLoop(SliceStable(w), trans, <<>>, 1)
         IN [WildcardTrans |-> SliceStable(w), trans |-> e.trans, out |-> e.out]

\* the transitions handed to the constructor: none or one on a plain prefix
InitWildcardTrans == {<<>>} \cup {<<WildUnivalue(tx, <<"a">>, TRUE)>> : tx \in {0, 1}}

\* the transitions handed to Filter
FilterTrans ==
    {WildUnivalue(tx, path, TRUE) :
        tx \in {0, 1},
        path \in {<<"a", "*">>, <<"a", "*", "b">>, <<"b", "*">>, <<"a", "b">>}}
    \cup {WildUnivalue(0, <<"b", "[:]">>, TRUE)}

FilterInputs == SeqsUpTo(FilterTrans, MaxFilter)

\* the groups handed to Expand: one or two transactions on one key
ExpandGroups ==
    {[i \in 1..Len(txs) |-> WildUnivalue(txs[i], path, preexist)] :
        txs \in {<<1>>, <<2>>, <<1, 2>>, <<2, 1>>},
        path \in {<<"a", "*", "b">>, <<"a", "b">>},
        preexist \in BOOLEAN}

WildCall(w, call) ==
    /\ WildcardTrans' = w
    /\ wret' = call
    /\ UNCHANGED schedVars /\ UNCHANGED arbVars

DoNewWildcard ==
    /\ wret.op = "none"
    /\ \E initWildcardTrans \in InitWildcardTrans :
        WildCall(initWildcardTrans,
                 [op |-> "NewWildcard", n |-> 0, arg |-> initWildcardTrans, held |-> <<>>,
                  out |-> <<>>, trans |-> <<>>])

DoFilter ==
    /\ wret.op # "none" /\ wret.n < MaxWildOps
    /\ \E trans \in FilterInputs :
        LET f == Filter(WildcardTrans, trans)
        IN WildCall(f.WildcardTrans,
                    [op |-> "Filter", n |-> wret.n + 1, arg |-> trans, held |-> WildcardTrans,
                     out |-> f.out, trans |-> <<>>])

DoExpand ==
    /\ wret.op # "none" /\ wret.n < MaxWildOps
    /\ \E trans \in ExpandGroups :
        LET e == Expand(WildcardTrans, trans)
        IN WildCall(e.WildcardTrans,
                    [op |-> "Expand", n |-> wret.n + 1, arg |-> trans, held |-> WildcardTrans,
                     out |-> e.out, trans |-> e.trans])

WildNext == DoNewWildcard \/ DoFilter \/ DoExpand

SpecWild == Init /\ [][WildNext]_vars

\* C33: after Filter the list returned holds no wildcard transition, holds
\* every other transition of the input in its order, and every wildcard
\* transition of the input is in the held list once.
FilterRemoves ==
    wret.op = "Filter" =>
        /\ \A i \in 1..Len(wret.out) : ~ContainsMarker(wret.out[i].path)
        /\ wret.out = SelectSeq(wret.arg, LAMBDA tran : ~ContainsMarker(tran.path))
        /\ WildcardTrans = wret.held \o SelectSeq(wret.arg, LAMBDA tran : ContainsMarker(tran.path))

\* may the wildcard w be expanded onto the group before: its path is a strict
\* prefix of the key, the key preexists, no transition of the group is of its tx
MayExpand(w, before) ==
    /\ HasPrefix(before[1].path, w.path) /\ w.path # before[1].path
    /\ before[1].preexist
    /\ \A i \in 1..Len(before) : before[i].tx # w.tx

\* C34: Expand appends to the group a synthesized transition for a held
\* wildcard exactly when the wildcard's path is a strict prefix of the key,
\* the key preexists and no transition of the group carries its tx: the
\* synthesized transition has the key as path, the wildcard's tx, a nil
\* value, one more write and the expanded mark; no tx gets two, and a tx
\* with a transition on the key gets none.
ExpandExact ==
    wret.op = "Expand" =>
        /\ wret.trans = wret.arg \o wret.out
        /\ \A i \in 1..Len(wret.out) :
              \E j \in 1..Len(wret.held) :
                  /\ MayExpand(wret.held[j], wret.arg)
                  /\ wret.out[i] = [wret.held[j] EXCEPT !.path = wret.arg[1].path,
                                                         !.value = NilPayload,
                                                         !.writes = wret.held[j].writes + 1,
                                                         !.expanded = TRUE]
        /\ \A j \in 1..Len(wret.held) :
              MayExpand(wret.held[j], wret.arg)
                  => \E i \in 1..Len(wret.out) : wret.out[i].tx = wret.held[j].tx
        /\ \A i, j \in 1..Len(wret.out) : i # j => wret.out[i].tx # wret.out[j].tx

\* three wildcards are held, two of them of one tx, and Expand has added a
\* transition for each of the two txs to a group of another tx
ExpandExactWitness ==
    /\ wret.op = "Expand"
    /\ Len(wret.held) = 3 /\ Len(wret.out) = 2 /\ Len(wret.arg) = 1
    /\ \E i, j \in 1..3 : i # j /\ wret.held[i].tx = wret.held[j].tx
    /\ \A j \in 1..3 : MayExpand(wret.held[j], wret.arg)

\* C35: when Expand has run the held list is in ascending order of path
\* length and, among paths of one length, in lexicographic order, whatever
\* the order in which the wildcards were filtered in.
WildcardOrder ==
    wret.op = "Expand" =>
        \A i, j \in 1..Len(WildcardTrans) :
            i < j =>
                \/ ByteLen(WildcardTrans[i].path) < ByteLen(WildcardTrans[j].path)
                \/ /\ ByteLen(WildcardTrans[i].path) = ByteLen(WildcardTrans[j].path)
                   /\ ~StringLess(WildcardTrans[j].path, WildcardTrans[i].path)

-----------------------------------------------------------------------------
(* The batch state of the arbitrator *)

\* the transitions handed to Insert with the path k, in the order of arrival
InsertedAt(k) == SelectSeq(inserted, LAMBDA v : v.path = k)

\* the sequences a and b hold the same elements the same number of times
SameMembers(a, b) ==
    /\ Len(a) = Len(b)
    /\ \A i \in 1..Len(a) : Count(a, a[i]) = Count(b, a[i])

\* C36: the group stored for a path holds exactly the transitions inserted
\* with that path since construction or the last Clear, each once, across
\* the promotion of an entry from one transition to a list; Detect returns
\* the conflicts of those groups, transitions of different Insert calls
\* included; after Clear nothing is held and Detect returns no conflict.
BatchState ==
    /\ DOMAIN dict = {inserted[i].path : i \in 1..Len(inserted)}
    /\ \A k \in DOMAIN dict : SameMembers(dict[k], InsertedAt(k))
    /\ detected # <<>> =>
          \A k \in ArbPaths :
              ConflictsAt(k) = IF Len(InsertedAt(k)) > 1
                               THEN LookupForConflict(InsertedAt(k))
                               ELSE <<>>

\* three transitions of one path arrived in two Insert calls or more, and
\* Detect named the last of them in a conflict with the first
BatchStateWitness ==
    /\ Len(inserted) = 3 /\ Len(inserted) > MaxInsert
    /\ \E k \in DOMAIN dict :
          /\ Len(dict[k]) = 3
          /\ detected # <<>>
          /\ \E i \in 1..Len(ConflictsAt(k)) :
                /\ ConflictsAt(k)[i].selfTran.sequence = 0
                /\ \E j \in 1..Len(ConflictsAt(k)[i].conflictTrans) :
                      ConflictsAt(k)[i].conflictTrans[j].sequence = 2

-----------------------------------------------------------------------------
(* Scheduler.New iteration by iteration: one step per iteration of the
   generational loop and one per iteration of the loop of ScheduleDeferred *)

MaxSetupSteps == 2   \* registry calls per behaviour of SpecSteps
MaxBatchSteps == 4   \* messages per batch of SpecSteps

\* two callees at different addresses
StepCallers == {<<<<1, 1>>, <<1>>>>, <<<<2, 1>>, <<1>>>>}

StepBatches == BatchesOf(StepCallers, MaxBatchSteps)

\* what New returns once the generational loop is left with the pairs rest
Returned(s, rest) ==
    [s EXCEPT !.Generations = SelectSeq(@, LAMBDA gen : Len(gen) # 0),
              !.WithConflict = @ \o Seconds(rest)]

\* New returns
StepReturn(s, rest, sets) ==
    /\ sch' = Returned(s, rest)
    /\ laneSets' = sets
    /\ loop' = NoLoop
    /\ pc' = "idle"

\* New up to the generational loop
StepBegin(B) ==
    /\ pc = "idle" /\ stdMsgs = <<>>
    /\ \E msgs \in B :
        LET static == StaticSchedule(msgs)
        IN /\ stdMsgs' = msgs
           /\ IF Len(static.pairs) = 0
              THEN /\ sch' = static.sch
                   /\ UNCHANGED <<laneSets, loop, pc>>
              ELSE /\ loop' = [NoLoop EXCEPT !.sch = static.sch,
                                             !.msgPairs = SortSlice("conflicts", static.pairs)]
                   /\ pc' = "gen"
                   /\ UNCHANGED <<sch, laneSets>>
    /\ UNCHANGED <<calleeDict, callees, deferByDefault, ret, nOps, work, optimized>>
    /\ UNCHANGED arbVars /\ UNCHANGED wildVars

\* one iteration of the generational loop, up to the call of ScheduleDeferred
GenStep ==
    /\ pc = "gen"
    /\ LET seedCallee == Head(loop.msgPairs)
           scan == Scan(Tail(loop.msgPairs), <<seedCallee>>, IndicesOf(seedCallee.First),
                        {seedCallee.First}, 0)
       IN IF Len(scan.paraMsgs) = 1
          THEN StepReturn([loop.sch EXCEPT !.WithConflict = @ \o Seconds(scan.paraMsgs)],
                          scan.msgPairs, loop.sets)
          ELSE /\ loop' = [loop EXCEPT !.msgPairs = scan.msgPairs,
                                       !.paraMsgs = scan.paraMsgs,
                                       !.info = SortSlice("callee", scan.paraMsgs),
                                       !.deferredMsgs = <<>>,
                                       !.i = 0,
                                       !.last = 0,
                                       !.steps = @ + 1]
               /\ pc' = "defer"
               /\ UNCHANGED <<sch, laneSets>>
    /\ UNCHANGED <<calleeDict, callees, deferByDefault, ret, nOps, stdMsgs, work, optimized>>
    /\ UNCHANGED arbVars /\ UNCHANGED wildVars

\* ScheduleDeferred returns para and deferred: the rest of the iteration of
\* the generational loop
DeferReturn(para, deferred) ==
    LET gens == <<Lanes(Seconds(para))>> \o
                (IF Len(deferred) > 0 THEN <<Lanes(Seconds(deferred))>> ELSE <<>>)
        s2 == [loop.sch EXCEPT !.Generations = @ \o gens]
        sets2 == Append(loop.sets, [lane |-> loop.paraMsgs, para |-> para,
                                    deferred |-> deferred])
    IN IF Len(loop.msgPairs) = 0
       THEN StepReturn(s2, loop.msgPairs, sets2)
       ELSE /\ loop' = [NoLoop EXCEPT !.sch = s2, !.msgPairs = loop.msgPairs, !.sets = sets2,
                                      !.steps = loop.steps + 1]
            /\ pc' = "gen"
            /\ UNCHANGED <<sch, laneSets>>

\* a loop that is never left this way
BreaksNever(last, tmplast) == FALSE

\* the loop of ScheduleDeferred is left when the run found is the one of the
\* iteration before
Breaks(last, tmplast) == last # 0 /\ last = tmplast

\* one iteration of the loop of ScheduleDeferred
DeferStep ==
    /\ pc = "defer"
    /\ LET tmpfirst == FindFirstSame(loop.info, loop.i)
           tmplast == FindLastSame(loop.info, loop.i)
       IN IF Breaks(loop.last, tmplast)
          THEN DeferReturn(loop.info, loop.deferredMsgs)
          ELSE LET move == tmpfirst # tmplast /\ DeferPolicy(loop.info[loop.i + 1])
                   info2 == IF move THEN RemoveAt(loop.info, tmplast) ELSE loop.info
                   deferred2 == IF move THEN Append(loop.deferredMsgs, loop.info[tmplast + 1])
                                ELSE loop.deferredMsgs
                   i2 == IF tmpfirst # tmplast
                         THEN (IF move THEN tmplast ELSE loop.i)
                         ELSE NextRun(tmplast)
               IN IF i2 >= Len(info2)
                  THEN DeferReturn(info2, deferred2)
                  ELSE /\ loop' = [loop EXCEPT !.info = info2, !.deferredMsgs = deferred2,
                                               !.i = i2, !.last = tmplast,
                                               !.steps = @ + 1]
                       /\ UNCHANGED <<sch, laneSets, pc>>
    /\ UNCHANGED <<calleeDict, callees, deferByDefault, ret, nOps, stdMsgs, work, optimized>>
    /\ UNCHANGED arbVars /\ UNCHANGED wildVars

StepsNext ==
    \/ DoFind(StepCallers, MaxSetupSteps)
    \/ DoAdd(StepCallers, MaxSetupSteps)
    \/ DoAddDeferred(StepCallers, MaxSetupSteps)
    \/ StepBegin(StepBatches)
    \/ GenStep
    \/ DeferStep
    \/ Release

SpecSteps == Init /\ [][StepsNext]_vars

\* New taken iteration by iteration returns what New returns
StepsAgree ==
    (pc = "idle" /\ stdMsgs # <<>>) => (sch = New(stdMsgs).sch /\ laneSets = New(stdMsgs).sets)

\* the iterations the loop of ScheduleDeferred can still take from the
\* locals l: two for every pair from position i on, one less when the run at
\* i is the run of the iteration before
DeferLeft(l) ==
    2 * (Len(l.info) - l.i) +
        (IF l.last # 0 /\ l.last = FindLastSame(l.info, l.i) THEN 0 ELSE 1)

\* the iterations the two loops can still take: those of the loop of
\* ScheduleDeferred in progress and, for every pair left in the pair list,
\* one of the generational loop with a loop of ScheduleDeferred over at most
\* the whole batch
StepsLeft ==
    LET perPair == 2 * Len(stdMsgs) + 3
    IN IF pc = "gen" THEN perPair * Len(loop.msgPairs)
       ELSE IF pc = "defer" THEN perPair * Len(loop.msgPairs) + 1 + DeferLeft(loop)
       ELSE 0

\* C37: New terminates for every batch and every registry: each iteration of
\* the generational loop removes a pair from the pair list or leaves the
\* loop, and every iteration of either loop, whether the repeated callees of
\* the lane-set are deferrable or not, leaves fewer iterations to take, a
\* number that is never negative, or returns.
NewTerminates ==
    [][/\ pc = "gen" => (pc' = "idle" \/ Len(loop'.msgPairs) < Len(loop.msgPairs))
       /\ (pc = "gen" \/ pc = "defer") => (pc' = "idle" \/ StepsLeft' < StepsLeft)
       /\ StepsLeft' >= 0]_vars

\* the loop of ScheduleDeferred has met a repeated callee that is not
\* deferrable, after it moved a call of a deferrable one
NewTerminatesWitness ==
    /\ pc = "defer"
    /\ loop.last # 0
    /\ Len(loop.deferredMsgs) = 1
    /\ FindFirstSame(loop.info, loop.i) # FindLastSame(loop.info, loop.i)
    /\ ~DeferPolicy(loop.info[loop.i + 1])

-----------------------------------------------------------------------------
(* Optimize and the messages of the schedule *)

\* the messages the schedule holds
HeldMsgs ==
    sch.Transfers \o sch.Deployments \o sch.WithConflict \o sch.Sequentials
        \o Flatten(Flatten(sch.Generations)) \o sch.Unknows

\* the output of Optimize, flattened
FlatOut == Flatten(Flatten(optimized))

\* C38: every message the schedule holds (transfers, deployments,
\* with-conflict, sequentials, generations, unknowns) is in the flattened
\* output of Optimize exactly once and the output holds no other message,
\* whether deferByDefault is set or not.
OptimizePreserves ==
    optimized # <<>> =>
        /\ SameMembers(FlatOut, HeldMsgs)
        /\ \A i, j \in 1..Len(FlatOut) : i # j => FlatOut[i].ID # FlatOut[j].ID
        /\ IDsOf(FlatOut) = IDsOf(stdMsgs)

\* Optimize has moved the last call of a group of unknowns to a round of its
\* own, in a schedule that holds a transfer as well
OptimizePreservesWitness ==
    /\ optimized # <<>>
    /\ Len(FlatOut) = 3
    /\ sch.Transfers # <<>>
    /\ Len(sch.Unknows) = 2
    /\ Len(optimized) = 3
    /\ Len(optimized[3]) = 1 /\ optimized[3][1][1].IsDeferred

-----------------------------------------------------------------------------
(* The lanes of a round and the conflicts of the registry *)

MaxSetupLanes == 2   \* registry calls per behaviour of SpecLanes
MaxBatchLanes == 3   \* messages per batch of SpecLanes

LanesBatches == Batches(SchedCallers, MaxBatchLanes)

\* registry calls, a batch is scheduled and optimized with no registry call
\* in between
LanesNext ==
    \/ DoFind(SchedCallers, MaxSetupLanes)
    \/ DoAdd(SchedCallers, MaxSetupLanes)
    \/ DoAddDeferred(SchedCallers, MaxSetupLanes)
    \/ DoNew(LanesBatches)
    \/ DoOptimize
    \/ Release

SpecLanes == Init /\ [][LanesNext]_vars

\* the message is a call and its callee is in the registry
Keyed(m) == Callable(m) /\ Compact(m.To, m.Data) \in DOMAIN calleeDict

\* one of the two callees lists the other in its Indices
ConflictRecorded(m, n) ==
    /\ Keyed(m) /\ Keyed(n)
    /\ \/ Contains(ConflictsOf(CalleeOf(m)), CalleeOf(n))
       \/ Contains(ConflictsOf(CalleeOf(n)), CalleeOf(m))

\* C39: in the output of Optimize on a schedule that New built on the
\* registry as it is now, no two messages in different lanes of one round
\* have callees one of which the registry records as conflicting with the
\* other.
LaneSafety ==
    \A r \in 1..Len(optimized) :
        \A i, j \in 1..Len(optimized[r]) :
            i # j =>
                \A a \in 1..Len(optimized[r][i]), b \in 1..Len(optimized[r][j]) :
                    ~ConflictRecorded(optimized[r][i][a], optimized[r][j][b])

\* two callees run side by side in the second round while a third message,
\* whose callee conflicts with one of them, waits in the first round
LaneSafetyWitness ==
    /\ Len(optimized) = 2
    /\ Len(optimized[2]) = 2
    /\ Len(optimized[1][1]) = 1
    /\ LET a == optimized[2][1][1]
           b == optimized[2][2][1]
           c == optimized[1][1][1]
       IN /\ Keyed(a) /\ Keyed(b) /\ Keyed(c)
          /\ CalleeOf(a) # CalleeOf(b)
          /\ ConflictRecorded(c, a) \/ ConflictRecorded(c, b)

====
